---- MODULE Spec2Model ----
(***************************************************************************)
(* Model of the financial core of financas-pro-supabase: the subscription   *)
(* billing pass of App (processSubscriptions), the daily-entry resolution   *)
(* path (DailyCheck.handleResolve, OfferDetailModal, App.updateOffer), the  *)
(* commission formulas and the compliance scan, together with the storage   *)
(* calls of services/api they go through.                                   *)
(*                                                                          *)
(* Dates are calendar days, written as the number of days since            *)
(* 2023-01-01; 'YYYY-MM-DD' strings compare as these numbers do.            *)
(* Instants are hours since 2023-01-01T00:00Z.                              *)
(***************************************************************************)
EXTENDS Integers, Sequences, FiniteSets

VARIABLES
    now,        \* the wall clock: hours since the epoch (UTC)
    tz,         \* the browser's time-zone offset in hours (local = UTC + tz)
    dbSubs,     \* table subscriptions: id -> row
    dbTxs,      \* table transactions: rows in insertion order
    insts,      \* the application instances (browser tabs) that are open
    data,       \* per instance: App's data.subscriptions (id -> Subscription)
    loading,    \* per instance: App's loading flag
    fetches,    \* per instance: fetchAllData calls in flight
    passes,     \* every processSubscriptions call started so far
    completed,  \* the passes that ran to their closing loadData()
    dbOffers,   \* table offers: id -> row
    dbEntries,  \* table daily_entries: a set of rows
    offers,     \* per instance: App's data.offers (id -> Offer)
    localOffer, \* per instance: OfferDetailModal's localOffer, <<>> when closed
    calls,      \* every updateOffer call started so far
    millis,     \* Date.now(), counted in the ids handed out so far
    editingSub, \* per instance: Financials' editingSub, <<>> when the form is closed
    subCalls,   \* every updateSubscription call started so far
    dbServices, \* table services: id -> row
    services,   \* per instance: App's data.services (id -> Service)
    transactions, \* per instance: App's data.transactions
    toast,      \* per instance: App's toast, <<>> or <<type>>
    arg,        \* the inputs of a render whose computed values are examined
    ret         \* <<>>, or the one value such a render has computed

offerVars == <<dbOffers, dbEntries, offers, localOffer, calls, millis>>

ledgerVars == <<dbServices, services, transactions, toast>>

vars == <<now, tz, dbSubs, dbTxs, insts, data, loading, fetches, passes,
          completed, dbOffers, dbEntries, offers, localOffer, calls, millis,
          editingSub, subCalls, dbServices, services, transactions, toast,
          arg, ret>>

-----------------------------------------------------------------------------
(* Calendar *)

\* The calendar years the model's dates may fall in; day 0 is 2023-01-01.
Years == 2023 .. 2027

IsLeap(y) == (y % 4 = 0 /\ y % 100 # 0) \/ y % 400 = 0

DaysInMonth(y, m) ==
    IF m = 2 THEN (IF IsLeap(y) THEN 29 ELSE 28)
    ELSE IF m \in {4, 6, 9, 11} THEN 30 ELSE 31

DaysInYear(y) == IF IsLeap(y) THEN 366 ELSE 365

RECURSIVE DaysBeforeYear(_)
DaysBeforeYear(y) ==
    IF y <= 2023 THEN 0 ELSE DaysBeforeYear(y - 1) + DaysInYear(y - 1)

RECURSIVE DaysBeforeMonth(_, _)
DaysBeforeMonth(y, m) ==
    IF m <= 1 THEN 0 ELSE DaysBeforeMonth(y, m - 1) + DaysInMonth(y, m - 1)

\* The day of Date(y, m, d) as JavaScript normalises it: a month past 12 rolls
\* into the next year, a day of month outside the month rolls over linearly.
DayOfYMD(y, m, d) ==
    LET yy == y + ((m - 1) \div 12)
        mm == ((m - 1) % 12) + 1
    IN  DaysBeforeYear(yy) + DaysBeforeMonth(yy, mm) + d - 1

YearOf(day) ==
    CHOOSE y \in Years : DaysBeforeYear(y) <= day /\ day < DaysBeforeYear(y + 1)

MonthOf(day) ==
    LET y == YearOf(day)
    IN  CHOOSE m \in 1..12 :
            /\ DayOfYMD(y, m, 1) <= day
            /\ day < DayOfYMD(y, m, 1) + DaysInMonth(y, m)

DomOf(day) == day - DayOfYMD(YearOf(day), MonthOf(day), 1) + 1

\* new Date().toISOString().split('T')[0]: the UTC calendar day of an instant.
UTCDate(instant) == instant \div 24

\* The local calendar day of an instant (getFullYear/getMonth/getDate).
LocalDate(instant, off) == (instant + off) \div 24

-----------------------------------------------------------------------------
(* Subscriptions, transactions and the billing pass *)

MaxPasses == 2

Inst == {1, 2}
SubIds == {1, 2}
Cycles == {"Mensal", "Anual"}

\* 2024-01-15T12:00Z: the instant of every clock read of a run.
ClockInstants == {(DayOfYMD(2024, 1, 15) * 24) + 12}
TZOffsets == {-3, 0, 2}
\* nextPaymentDate values of the stored subscriptions.
NextDates == {DayOfYMD(2023, 11, 30), DayOfYMD(2024, 1, 1), DayOfYMD(2024, 3, 10)}
AmountOf(id) == 100 * id

NoRows == [x \in {} |-> x]

\* The ids of a set in ascending order, as the array a select returns.
RECURSIVE SeqOfIds(_)
SeqOfIds(S) ==
    IF S = {} THEN <<>>
    ELSE LET m == CHOOSE x \in S : \A y \in S : x <= y
         IN  <<m>> \o SeqOfIds(S \ {m})

\* The date advance as it would be if it skipped a cycle (two months or two
\* years at once).
NextDateTwoCycles(nextPaymentDate, billingCycle, off) ==
    LET local == (nextPaymentDate * 24) + off
        ld    == local \div 24
        hr    == local % 24
        nd    == IF billingCycle = "Mensal"
                 THEN DayOfYMD(YearOf(ld), MonthOf(ld) + 2, DomOf(ld))
                 ELSE DayOfYMD(YearOf(ld) + 2, MonthOf(ld), DomOf(ld))
    IN  UTCDate(((nd * 24) + hr) - off)

\* currentDueDate = new Date(sub.nextPaymentDate); setMonth(getMonth() + 1) or
\* setFullYear(getFullYear() + 1); toISOString().split('T')[0].  The string
\* parses as UTC midnight, the setters work on the local calendar fields.
NextDateOf(nextPaymentDate, billingCycle, off) ==
    LET local == (nextPaymentDate * 24) + off
        ld    == local \div 24
        hr    == local % 24
        y     == YearOf(ld)
        m     == MonthOf(ld)
        d     == DomOf(ld)
        nd    == IF billingCycle = "Mensal"
                 THEN DayOfYMD(y, m + 1, d)
                 ELSE DayOfYMD(y + 1, m, d)
    IN  UTCDate(((nd * 24) + hr) - off)

\* The selection as it would be without its autoPay test.
SubsToProcessAnyAutoPay(subs, today) ==
    {s \in DOMAIN subs : subs[s].active /\ subs[s].nextPaymentDate <= today}

\* data.subscriptions.filter(sub => sub.active && sub.autoPay &&
\*                                  sub.nextPaymentDate <= today)
SubsToProcess(subs, today) ==
    {s \in DOMAIN subs :
        subs[s].active /\ subs[s].autoPay /\ subs[s].nextPaymentDate <= today}

\* The transaction row processSubscriptions posts for a subscription; pass and
\* due are history fields: the pass that posted it and the due date it charged.
\* A pass's own history fields are after (the passes completed when its
\* snapshot was loaded), with (the passes in flight when it started), all (its
\* whole snapshot, data.subscriptions as it was loaded), due (the ids it set
\* out to process) and wrote (the date updates it has made so far).
NewTrans(sub, today, p) ==
    [subscriptionId |-> sub.id, amount |-> sub.amount, type |-> "EXPENSE",
     status |-> "PAID", date |-> today, pass |-> p, due |-> sub.nextPaymentDate]

\* The links of a transaction: 0 is null (undefined in the client).
Links == {"serviceId", "offerId", "subscriptionId"}

\* mappedTransactions of fetchAllData: every row with its id (here its place
\* in the table); a row without a link column has the link null.
MappedTransactions(rows) ==
    [k \in 1 .. Len(rows) |->
        [f \in (DOMAIN rows[k]) \cup Links \cup {"id"} |->
            IF f = "id" THEN k
            ELSE IF f \in DOMAIN rows[k] THEN rows[k][f] ELSE 0]]

\* apiUpdateSubscription as it would be without its nextPaymentDate line.
SubPayloadWithoutDate(updates) ==
    [f \in (DOMAIN updates) \cap {"name", "amount", "currency", "originalAmount",
                                   "active", "notes"}
        |-> updates[f]]

\* The payload apiUpdateSubscription builds from its updates: a field is sent
\* only if the code copies it.
SubPayload(updates) ==
    [f \in (DOMAIN updates) \cap {"name", "amount", "currency", "originalAmount",
                                   "nextPaymentDate", "active", "notes"}
        |-> updates[f]]

\* The update as it would be without its .eq('id', id) filter: every row
\* takes the payload.
DbUpdateEverySub(subs, id, payload) ==
    [x \in DOMAIN subs |->
        [f \in DOMAIN subs[x] |->
            IF f \in DOMAIN payload THEN payload[f] ELSE subs[x][f]]]

\* supabase.from('subscriptions').update(payload).eq('id', id)
DbUpdateSub(subs, id, payload) ==
    IF id \in DOMAIN subs
    THEN [subs EXCEPT ![id] =
            [f \in DOMAIN subs[id] |->
                IF f \in DOMAIN payload THEN payload[f] ELSE subs[id][f]]]
    ELSE subs

-----------------------------------------------------------------------------
(* Offers and daily entries *)

\* Amounts are whole currency units and percentages whole numbers; a share is
\* kept in hundredths of a unit (the value times 100), a participant's share
\* in ten-thousandths, so that the divisions by 100 stay exact.  An optional
\* field (teamPotPercent, endDate) is <<>> when undefined and <<v>> otherwise.

\* x || 0
OrZero(x) == IF x = <<>> THEN 0 ELSE x[1]

\* handleResolve / handleAddEntry: baseAmount = payoutModel === REVENUE ?
\* revenue : netProfit; teamShare = (baseAmount * (teamPotPercent || 0)) / 100
NewEntryTeamShare(offer, revenue, netProfit) ==
    (IF offer.payoutModel = "REVENUE" THEN revenue ELSE netProfit)
        * OrZero(offer.teamPotPercent)

\* The entry as it would be built with the revenue as its netProfit.
NewEntryGross(offer, date, revenue, ads, ms) ==
    [id |-> [kind |-> "millis", n |-> ms], date |-> date, revenue |-> revenue,
     adsSpend |-> ads, netProfit |-> revenue,
     teamShare |-> NewEntryTeamShare(offer, revenue, revenue - ads)]

\* The DailyEntry handleResolve and handleAddEntry build: id is
\* Date.now().toString().
NewEntry(offer, date, revenue, ads, ms) ==
    [id |-> [kind |-> "millis", n |-> ms], date |-> date, revenue |-> revenue,
     adsSpend |-> ads, netProfit |-> revenue - ads,
     teamShare |-> NewEntryTeamShare(offer, revenue, revenue - ads)]

\* A share that always takes the revenue as its base.
ShareOfRevenue(offer, entry) == entry.revenue * OrZero(offer.teamPotPercent)

\* OfferDetailModal.calculateDynamicEntryShare, and the same expression in
\* processGlobalChartData: the share from the offer's current settings.
CalculateDynamicEntryShare(offer, entry) ==
    (IF offer.payoutModel = "REVENUE" THEN entry.revenue ELSE entry.netProfit)
        * OrZero(offer.teamPotPercent)

RECURSIVE SumSeq(_)
SumSeq(q) == IF q = <<>> THEN 0 ELSE Head(q) + SumSeq(Tail(q))

\* OfferDetailModal's totalTeamPayout over the offer it shows.
TotalTeamPayout(offer) ==
    SumSeq([k \in 1 .. Len(offer.dailyEntries) |->
               CalculateDynamicEntryShare(offer, offer.dailyEntries[k])])

\* A slice taken from the entry's revenue instead of the day's pot.
SliceOfRevenue(offer, entry, p) == entry.revenue * 100 * OrZero(p.sharePercent)

\* The team table of OfferDetailModal, inside memberTotalEarnings' reduce:
\* memberSlice = (currentDayPot * (p.sharePercent || 0)) / 100, in
\* ten-thousandths.
MemberSlice(offer, entry, p) ==
    CalculateDynamicEntryShare(offer, entry) * OrZero(p.sharePercent)

\* memberTotalEarnings of participant p: the slices summed over the entries.
MemberTotalEarnings(offer, p) ==
    SumSeq([k \in 1 .. Len(offer.dailyEntries) |->
               MemberSlice(offer, offer.dailyEntries[k], p)])

\* Dashboard.getFilteredData with the default filter 'MONTH': the entries of
\* all offers dated within the current local month, offer by offer.
DashboardEntries(offs, instant, off) ==
    LET ld == LocalDate(instant, off)
        y  == YearOf(ld)
        m  == MonthOf(ld)
        InMonth(e) == DayOfYMD(y, m, 1) <= e.date /\ e.date < DayOfYMD(y, m + 1, 1)
    IN  [o \in DOMAIN offs |-> SelectSeq(offs[o].dailyEntries, InMonth)]

RECURSIVE SumOver(_, _)
SumOver(f, S) ==
    IF S = {} THEN 0
    ELSE LET x == CHOOSE y \in S : TRUE IN f[x] + SumOver(f, S \ {x})

\* Dashboard: teamShare = entries.reduce((acc, e) => acc + e.teamShare, 0)
DashboardTeamShare(offs, instant, off) ==
    LET es == DashboardEntries(offs, instant, off)
    IN  SumOver([o \in DOMAIN offs |->
                    SumSeq([k \in 1 .. Len(es[o]) |-> es[o][k].teamShare])],
                DOMAIN offs)

\* updateOffer's test for an entry to insert: !entry.id ||
\* entry.id.startsWith('temp-')
IsNewEntryId(id) == id.kind = "none" \/ id.kind = "temp"

\* The rows of a set in ascending order of their id.
RECURSIVE RowsById(_)
RowsById(S) ==
    IF S = {} THEN <<>>
    ELSE LET r == CHOOSE x \in S : \A y \in S : x.id <= y.id
         IN  <<r>> \o RowsById(S \ {r})

\* fetchAllData's mapping of a daily_entries row.
MappedEntry(e) ==
    [id |-> [kind |-> "uuid", n |-> e.id], date |-> e.date, revenue |-> e.revenue,
     adsSpend |-> e.ads_spend, netProfit |-> e.net_profit, teamShare |-> e.team_share]

\* fetchAllData's mappedOffers: each offer row joined with its entries.
MappedOffers(dbO, dbE) ==
    [o \in DOMAIN dbO |->
        [id |-> o, status |-> dbO[o].status, payoutModel |-> dbO[o].payout_model,
         teamPotPercent |-> <<dbO[o].team_pot_percent>>,
         startDate |-> dbO[o].start_date, endDate |-> dbO[o].end_date,
         dailyEntries |->
            LET rows == RowsById({e \in dbE : e.offer_id = o})
            IN  [k \in 1 .. Len(rows) |-> MappedEntry(rows[k])]]]

\* loadData(): setLoading(true) and one more fetchAllData in flight.  While
\* loading, App renders only the loading screen: the pages unmount and the
\* detail modal's buffered offer and the subscription form are gone.
LoadData(i) ==
    /\ loading' = [loading EXCEPT ![i] = TRUE]
    /\ fetches' = [fetches EXCEPT ![i] = @ + 1]
    /\ localOffer' = [localOffer EXCEPT ![i] = <<>>]
    /\ editingSub' = [editingSub EXCEPT ![i] = <<>>]

\* The billing effect of instance i runs (loading is false) on the array
\* subs of data.subscriptions: with due subscriptions it starts a pass, whose
\* first apiAddTransaction is then in flight.
StartedPasses(i, subs) ==
    LET today == UTCDate(now)
        due   == SubsToProcess(subs, today)
        queue == [k \in 1 .. Cardinality(due) |-> subs[SeqOfIds(due)[k]]]
    IN  IF due = {} THEN passes
        ELSE Append(passes, [inst |-> i, queue |-> queue,
                             step |-> "tx", today |-> today,
                             after |-> completed,
                             all |-> subs, due |-> due,
                             wrote |-> <<>>,
                             with |-> {p \in 1 .. Len(passes) :
                                 passes[p].step \in {"tx", "upd"}}])

\* The model follows at most MaxPasses passes.
MayStartPass(subs) ==
    SubsToProcess(subs, UTCDate(now)) # {} => Len(passes) < MaxPasses

\* A fetchAllData of instance i returns: setData(fetchedData),
\* setLoading(false), and the billing effect runs on the new snapshot.  With
\* due subscriptions it starts a pass, whose first apiAddTransaction is then in
\* flight.
FetchAllDataDone(i) ==
    /\ i \in insts
    /\ fetches[i] > 0
    /\ MayStartPass(dbSubs)
    /\ passes' = StartedPasses(i, dbSubs)
    /\ data' = [data EXCEPT ![i] = dbSubs]
    /\ offers' = [offers EXCEPT ![i] = MappedOffers(dbOffers, dbEntries)]
    /\ loading' = [loading EXCEPT ![i] = FALSE]
    /\ fetches' = [fetches EXCEPT ![i] = @ - 1]
    /\ UNCHANGED <<now, tz, dbSubs, dbTxs, insts, completed>>
    /\ UNCHANGED <<dbOffers, dbEntries, localOffer, calls, millis>>
    /\ services' = [services EXCEPT ![i] = dbServices]
    /\ transactions' = [transactions EXCEPT ![i] = MappedTransactions(dbTxs)]
    /\ UNCHANGED <<dbServices, toast>>
    /\ UNCHANGED <<arg, ret, editingSub, subCalls>>

Running(p) == p \in 1 .. Len(passes) /\ passes[p].step \in {"tx", "upd"}

\* await apiAddTransaction(newTrans) of pass p returns the inserted row.
PassAddTransaction(p) ==
    /\ Running(p)
    /\ passes[p].step = "tx"
    /\ dbTxs' = Append(dbTxs, NewTrans(Head(passes[p].queue), passes[p].today, p))
    /\ passes' = [passes EXCEPT ![p].step = "upd"]
    /\ UNCHANGED <<now, tz, dbSubs, insts, data, loading, fetches, completed>>
    /\ UNCHANGED offerVars
    /\ UNCHANGED ledgerVars
    /\ UNCHANGED <<arg, ret, editingSub, subCalls>>

\* apiAddTransaction throws (the insert returned an error): the exception
\* leaves the loop and processSubscriptions, whose promise nobody awaits.
PassAddTransactionFails(p) ==
    /\ Running(p)
    /\ passes[p].step = "tx"
    /\ passes' = [passes EXCEPT ![p].step = "rejected"]
    /\ UNCHANGED <<now, tz, dbSubs, dbTxs, insts, data, loading, fetches, completed>>
    /\ UNCHANGED offerVars
    /\ UNCHANGED ledgerVars
    /\ UNCHANGED <<arg, ret, editingSub, subCalls>>

\* await apiUpdateSubscription(sub.id, { nextPaymentDate: nextDate }) of pass
\* p returns; the loop goes on to the next subscription or, after the last
\* one, calls loadData().
PassUpdateSubscription(p) ==
    /\ Running(p)
    /\ passes[p].step = "upd"
    /\ LET sub      == Head(passes[p].queue)
           nextDate == NextDateOf(sub.nextPaymentDate, sub.billingCycle, tz)
           rest     == Tail(passes[p].queue)
           i        == passes[p].inst
           wrote    == Append(passes[p].wrote,
                               [id |-> sub.id, from |-> sub.nextPaymentDate,
                                to |-> nextDate])
       IN  /\ dbSubs' = DbUpdateSub(dbSubs, sub.id,
                                    SubPayload([nextPaymentDate |-> nextDate]))
           /\ IF rest = <<>>
              THEN /\ passes' = [passes EXCEPT ![p].step = "done", ![p].queue = rest,
                                               ![p].wrote = wrote]
                   /\ completed' = completed \cup {p}
                   /\ LoadData(i)
              ELSE /\ passes' = [passes EXCEPT ![p].step = "tx", ![p].queue = rest,
                                               ![p].wrote = wrote]
                   /\ UNCHANGED <<completed, loading, fetches, localOffer, editingSub>>
    /\ UNCHANGED <<now, tz, dbTxs, insts, data>>
    /\ UNCHANGED <<dbOffers, dbEntries, offers, calls, millis>>
    /\ UNCHANGED ledgerVars
    /\ UNCHANGED <<arg, ret, subCalls>>

\* apiUpdateSubscription throws: as above, the pass ends there.
PassUpdateSubscriptionFails(p) ==
    /\ Running(p)
    /\ passes[p].step = "upd"
    /\ passes' = [passes EXCEPT ![p].step = "rejected"]
    /\ UNCHANGED <<now, tz, dbSubs, dbTxs, insts, data, loading, fetches, completed>>
    /\ UNCHANGED offerVars
    /\ UNCHANGED ledgerVars
    /\ UNCHANGED <<arg, ret, editingSub, subCalls>>

MaxSubCalls == 1

\* Financials.handleStartEdit(sub): the edit form opens on a subscription of
\* the list; editingSub keeps the object as it is in data.subscriptions now.
HandleStartEdit(i, s) ==
    /\ i \in insts
    /\ ~loading[i]
    /\ s \in DOMAIN data[i]
    /\ editingSub[i] = <<>>
    /\ editingSub' = [editingSub EXCEPT ![i] = <<data[i][s]>>]
    /\ UNCHANGED <<now, tz, dbSubs, dbTxs, insts, data, loading, fetches, passes,
                   completed>>
    /\ UNCHANGED offerVars
    /\ UNCHANGED ledgerVars
    /\ UNCHANGED <<subCalls, arg, ret>>

\* Financials.handleSubSubmit with editingSub set: the payload is built from
\* the form (here the user may have changed the active and autoPay boxes and
\* nothing else),
\* nextPaymentDate is taken from editingSub, App.updateSubscription is called
\* and the form closes.  The form has no field for nextPaymentDate.
HandleSubSubmit(i, active, autoPay) ==
    /\ i \in insts
    /\ ~loading[i]
    /\ editingSub[i] # <<>>
    /\ Len(subCalls) < MaxSubCalls
    /\ LET sub     == editingSub[i][1]
           updates == [amount |-> sub.amount, billingCycle |-> sub.billingCycle,
                       active |-> active, autoPay |-> autoPay,
                       nextPaymentDate |-> sub.nextPaymentDate]
       IN  subCalls' = Append(subCalls, [inst |-> i, id |-> sub.id,
                                         updates |-> updates, step |-> "sent"])
    /\ editingSub' = [editingSub EXCEPT ![i] = <<>>]
    /\ UNCHANGED <<now, tz, dbSubs, dbTxs, insts, data, loading, fetches, passes,
                   completed>>
    /\ UNCHANGED offerVars
    /\ UNCHANGED ledgerVars
    /\ UNCHANGED <<arg, ret>>

\* await apiUpdateSubscription(id, updates) of call c returns: the row is
\* updated, setData merges the updates into data.subscriptions and, unless
\* the instance is loading, the billing effect runs on the new array.
UpdateSubscriptionDone(c) ==
    /\ c \in 1 .. Len(subCalls)
    /\ subCalls[c].step = "sent"
    /\ LET i      == subCalls[c].inst
           id     == subCalls[c].id
           u      == subCalls[c].updates
           merged == [x \in DOMAIN data[i] |->
                        IF x # id THEN data[i][x]
                        ELSE [f \in DOMAIN data[i][x] |->
                                IF f \in DOMAIN u THEN u[f] ELSE data[i][x][f]]]
       IN  /\ dbSubs' = DbUpdateSub(dbSubs, id, SubPayload(u))
           /\ data' = [data EXCEPT ![i] = merged]
           /\ IF loading[i]
              THEN passes' = passes
              ELSE MayStartPass(merged) /\ passes' = StartedPasses(i, merged)
    /\ subCalls' = [subCalls EXCEPT ![c].step = "done"]
    /\ UNCHANGED <<now, tz, dbTxs, insts, loading, fetches, completed>>
    /\ UNCHANGED offerVars
    /\ UNCHANGED ledgerVars
    /\ UNCHANGED <<editingSub, arg, ret>>

\* apiUpdateSubscription throws: updateSubscription's catch logs the error.
UpdateSubscriptionFails(c) ==
    /\ c \in 1 .. Len(subCalls)
    /\ subCalls[c].step = "sent"
    /\ subCalls' = [subCalls EXCEPT ![c].step = "caught"]
    /\ UNCHANGED <<now, tz, dbSubs, dbTxs, insts, data, loading, fetches, passes,
                   completed>>
    /\ UNCHANGED offerVars
    /\ UNCHANGED ledgerVars
    /\ UNCHANGED <<editingSub, arg, ret>>

\* f without the key id.
Without(f, id) == [x \in (DOMAIN f) \ {id} |-> f[x]]

\* The rows (an array or a table) with the link set to null wherever it is id.
ClearLink(rows, link, id) ==
    [k \in DOMAIN rows |->
        IF link \in DOMAIN rows[k] /\ rows[k][link] = id
        THEN [rows[k] EXCEPT ![link] = 0]
        ELSE rows[k]]

\* What the database does with the rows that refer to a deleted parent: the
\* link of a transaction or service is set to null, the daily entries of an
\* offer go with it.
DbClearLink(rows, link, id) == ClearLink(rows, link, id)

DbEntriesWithout(entries, id) == {e \in entries : e.offer_id # id}

\* App.deleteService(id): await apiDeleteService(id), then setData removes the
\* service and clears serviceId on the transactions; toast 'success'.
DeleteService(i, id) ==
    /\ i \in insts
    /\ ~loading[i]
    /\ id \in DOMAIN services[i]
    /\ id \in DOMAIN dbServices
    /\ dbServices' = Without(dbServices, id)
    /\ dbTxs' = DbClearLink(dbTxs, "serviceId", id)
    /\ services' = [services EXCEPT ![i] = Without(@, id)]
    /\ transactions' = [transactions EXCEPT ![i] = ClearLink(@, "serviceId", id)]
    /\ toast' = [toast EXCEPT ![i] = <<"success">>]
    /\ UNCHANGED <<now, tz, dbSubs, insts, data, loading, fetches, passes, completed>>
    /\ UNCHANGED offerVars
    /\ UNCHANGED <<editingSub, subCalls, arg, ret>>

\* App.deleteOffer(id): await apiDeleteOffer(id), then setData removes the
\* offer and clears offerId on the services; toast 'success'.
DeleteOffer(i, id) ==
    /\ i \in insts
    /\ ~loading[i]
    /\ id \in DOMAIN offers[i]
    /\ id \in DOMAIN dbOffers
    /\ dbOffers' = Without(dbOffers, id)
    /\ dbEntries' = DbEntriesWithout(dbEntries, id)
    /\ dbServices' = DbClearLink(dbServices, "offerId", id)
    /\ dbTxs' = DbClearLink(dbTxs, "offerId", id)
    /\ offers' = [offers EXCEPT ![i] = Without(@, id)]
    /\ services' = [services EXCEPT ![i] = ClearLink(@, "offerId", id)]
    /\ toast' = [toast EXCEPT ![i] = <<"success">>]
    /\ UNCHANGED <<now, tz, dbSubs, insts, data, loading, fetches, passes, completed>>
    /\ UNCHANGED <<localOffer, calls, millis, transactions>>
    /\ UNCHANGED <<editingSub, subCalls, arg, ret>>

\* App.deleteSubscription(id): await apiDeleteSubscription(id), then setData
\* removes the subscription and clears subscriptionId on the transactions;
\* toast 'success'.  data.subscriptions is a new array: the billing effect
\* runs on it.
DeleteSubscription(i, id) ==
    /\ i \in insts
    /\ ~loading[i]
    /\ id \in DOMAIN data[i]
    /\ id \in DOMAIN dbSubs
    /\ dbSubs' = Without(dbSubs, id)
    /\ dbTxs' = DbClearLink(dbTxs, "subscriptionId", id)
    /\ data' = [data EXCEPT ![i] = Without(@, id)]
    /\ transactions' = [transactions EXCEPT ![i] = ClearLink(@, "subscriptionId", id)]
    /\ toast' = [toast EXCEPT ![i] = <<"success">>]
    /\ MayStartPass(Without(data[i], id))
    /\ passes' = StartedPasses(i, Without(data[i], id))
    /\ UNCHANGED <<now, tz, insts, loading, fetches, completed>>
    /\ UNCHANGED offerVars
    /\ UNCHANGED <<dbServices, services, editingSub, subCalls, arg, ret>>

\* apiDeleteService, apiDeleteOffer or apiDeleteSubscription throws (an error,
\* or no row deleted): the catch logs it and shows the toast 'error'.
DeleteFails(i) ==
    /\ i \in insts
    /\ ~loading[i]
    /\ DOMAIN services[i] \cup DOMAIN offers[i] \cup DOMAIN data[i] # {}
    /\ toast' = [toast EXCEPT ![i] = <<"error">>]
    /\ UNCHANGED <<now, tz, dbSubs, dbTxs, insts, data, loading, fetches, passes,
                   completed>>
    /\ UNCHANGED offerVars
    /\ UNCHANGED <<dbServices, services, transactions, editingSub, subCalls, arg, ret>>

\* The page of instance i is reloaded (or closed and opened again): whatever
\* it was running is gone, App mounts with MOCK_STATE and loading = true, and
\* the mount effect calls loadData().
PageReload(i) ==
    /\ i \in insts
    /\ passes' = [p \in 1 .. Len(passes) |->
                    IF passes[p].inst = i /\ Running(p)
                    THEN [passes[p] EXCEPT !.step = "interrupted"]
                    ELSE passes[p]]
    /\ calls' = [c \in 1 .. Len(calls) |->
                    IF calls[c].inst = i /\ calls[c].step \in {"api", "entries"}
                    THEN [calls[c] EXCEPT !.step = "interrupted"]
                    ELSE calls[c]]
    /\ data' = [data EXCEPT ![i] = NoRows]
    /\ offers' = [offers EXCEPT ![i] = NoRows]
    /\ localOffer' = [localOffer EXCEPT ![i] = <<>>]
    /\ loading' = [loading EXCEPT ![i] = TRUE]
    /\ fetches' = [fetches EXCEPT ![i] = 1]
    /\ UNCHANGED <<now, tz, dbSubs, dbTxs, insts, completed>>
    /\ UNCHANGED <<dbOffers, dbEntries, millis>>
    /\ editingSub' = [editingSub EXCEPT ![i] = <<>>]
    /\ subCalls' = [c \in 1 .. Len(subCalls) |->
                       IF subCalls[c].inst = i /\ subCalls[c].step = "sent"
                       THEN [subCalls[c] EXCEPT !.step = "interrupted"]
                       ELSE subCalls[c]]
    /\ services' = [services EXCEPT ![i] = NoRows]
    /\ transactions' = [transactions EXCEPT ![i] = <<>>]
    /\ toast' = [toast EXCEPT ![i] = <<>>]
    /\ UNCHANGED dbServices
    /\ UNCHANGED <<arg, ret>>

-----------------------------------------------------------------------------
(* The compliance scan of DailyCheck *)

WindowDays == 30

\* datesToCheck: for i = 0 .. 29, d = new Date(); d.setDate(today.getDate() - i),
\* written from d's local year, month and day.
DatesToCheck(instant, off) ==
    LET ld  == LocalDate(instant, off)
        y   == YearOf(ld)
        m   == MonthOf(ld)
        dom == DomOf(ld)
    IN  [k \in 1 .. WindowDays |-> DayOfYMD(y, m, dom - (k - 1))]

SeqRange(q) == {q[k] : k \in 1 .. Len(q)}

\* A scan that lists the offers of every status.
PendingTaskSetAnyStatus(offs, instant, off) ==
    {t \in (DOMAIN offs) \X SeqRange(DatesToCheck(instant, off)) :
        LET offer == offs[t[1]]
        IN  /\ ~(t[2] < offer.startDate)
            /\ ~(offer.endDate # <<>> /\ t[2] > offer.endDate[1])
            /\ ~(\E k \in 1 .. Len(offer.dailyEntries) :
                    offer.dailyEntries[k].date = t[2])}

\* The (offerId, date) pairs of pendingTasks.
PendingTaskSet(offs, instant, off) ==
    {t \in (DOMAIN offs) \X SeqRange(DatesToCheck(instant, off)) :
        LET offer == offs[t[1]]
            date  == t[2]
        IN  /\ offer.status = "ACTIVE"
            /\ ~(date < offer.startDate)
            /\ ~(offer.endDate # <<>> /\ date > offer.endDate[1])
            /\ ~(\E k \in 1 .. Len(offer.dailyEntries) :
                    offer.dailyEntries[k].date = date)}

\* pendingTasks before its sort: offer by offer in the snapshot's order, and
\* for each offer the dates in datesToCheck's order (most recent first).
PushedTasks(offs, instant, off) ==
    LET S     == PendingTaskSet(offs, instant, off)
        dates == DatesToCheck(instant, off)
        Of(o) == SelectSeq([k \in 1 .. WindowDays |-> <<o, dates[k]>>],
                           LAMBDA t : t \in S)
        RECURSIVE Upto(_)
        Upto(n) == IF n = 0 THEN <<>> ELSE Upto(n - 1) \o Of(n)
    IN  Upto(Cardinality(DOMAIN offs))

\* tasks.sort((a, b) => new Date(b.date).getTime() - new Date(a.date).getTime()):
\* a stable sort by date, latest first.
RECURSIVE SortByDateDesc(_)
SortByDateDesc(q) ==
    IF q = <<>> THEN <<>>
    ELSE LET rest == SortByDateDesc(SubSeq(q, 1, Len(q) - 1))
             x    == q[Len(q)]
             n    == Cardinality({k \in 1 .. Len(rest) : rest[k][2] >= x[2]})
         IN  SubSeq(rest, 1, n) \o <<x>> \o SubSeq(rest, n + 1, Len(rest))

\* pendingTasks, as (offerId, date) pairs.
PendingTasks(offs, instant, off) == SortByDateDesc(PushedTasks(offs, instant, off))

-----------------------------------------------------------------------------
(* Math.round((cleanOffers.length / activeOffers.length) * 100) in IEEE-754  *)
(* double precision.  A positive double is [n, s]: its value is n / 2^s,    *)
(* with n a whole number of at most 53 significant bits, written in four    *)
(* limbs of 18 bits, least significant first.                               *)

RECURSIVE Pow2(_)
Pow2(k) == IF k = 0 THEN 1 ELSE 2 * Pow2(k - 1)

Limb == Pow2(18)

RECURSIVE BitLen(_)
BitLen(k) == IF k = 0 THEN 0 ELSE 1 + BitLen(k \div 2)

RECURSIVE LeadZeros(_, _)
\* The zeros after the binary point before the first 1 bit of r / a, 0 < r < a.
LeadZeros(r, a) == IF 2 * r >= a THEN 0 ELSE 1 + LeadZeros(2 * r, a)

\* Four limbs with the carries moved up.
Carried(q) ==
    LET t2 == q[2] + (q[1] \div Limb)
        t3 == q[3] + (t2 \div Limb)
        t4 == q[4] + (t3 \div Limb)
    IN  <<q[1] % Limb, t2 % Limb, t3 % Limb, t4>>

\* c / a for 0 < c <= a < 2^13, rounded to nearest, ties to even: 54 bits of
\* the quotient are produced by long division, the last of them is the
\* guard bit, the remainder tells whether anything follows it.
DoubleDiv(c, a) ==
    IF c = a THEN [n |-> <<0, 0, Pow2(17), 0>>, s |-> 53]
    ELSE LET z  == LeadZeros(c, a)
             r0 == c * Pow2(z)
             q1 == (r0 * Limb) \div a
             r1 == (r0 * Limb) % a
             q2 == (r1 * Limb) \div a
             r2 == (r1 * Limb) % a
             q3 == (r2 * Limb) \div a
             r3 == (r2 * Limb) % a
             guard == q3 % 2
             up == guard = 1 /\ (r3 # 0 \/ (q3 \div 2) % 2 = 1)
         IN  [n |-> Carried(<<(q3 - guard) + (IF up THEN 2 ELSE 0), q2, q1, 0>>),
              s |-> 54 + z]

\* x * 100, rounded to 53 significant bits, ties to even.
DoubleTimes100(x) ==
    LET p  == Carried(<<100 * x.n[1], 100 * x.n[2], 100 * x.n[3], 100 * x.n[4]>>)
        d  == (36 + BitLen((p[4] * Limb) + p[3])) - 53
        kept  == p[1] \div Pow2(d)
        guard == (p[1] \div Pow2(d - 1)) % 2
        up == guard = 1 /\ (p[1] % Pow2(d - 1) # 0 \/ kept % 2 = 1)
    IN  [n |-> Carried(<<(kept + (IF up THEN 1 ELSE 0)) * Pow2(d), p[2], p[3], p[4]>>),
         s |-> x.s]

\* Math.round(x) for 1/4 <= x < 2^20: the integer part, plus one when the
\* fraction is a half or more.
MathRound(x) ==
    LET top == (x.n[4] * Limb) + x.n[3]
    IN  (top \div Pow2(x.s - 36)) + ((top \div Pow2(x.s - 37)) % 2)

\* DailyCheck's complianceRate, from the snapshot and pendingTasks (tasks is
\* the set of its (offerId, date) pairs).
ComplianceRate(offs, tasks) ==
    LET activeOffers == {o \in DOMAIN offs : offs[o].status = "ACTIVE"}
        cleanOffers  == {o \in activeOffers : ~(\E t \in tasks : t[1] = o)}
    IN  IF activeOffers = {} THEN 100
        ELSE IF cleanOffers = {} THEN 0
        ELSE MathRound(DoubleTimes100(DoubleDiv(Cardinality(cleanOffers),
                                                Cardinality(activeOffers))))

-----------------------------------------------------------------------------
(* Daily-entry resolution, the offer detail form and updateOffer *)

MaxNew == 2
MaxCalls == 2
\* The longest entry list the detail form is filled to.
MaxEntries == 2
\* How many times the detail form is saved.
MaxSaves == 1

OfferIds == {1, 2}
PayoutModels == {"REVENUE", "PROFIT"}
PotPercents == {50}
\* What the forms' revenue and adsSpend inputs parse to.
RevenueInputs == {100}
AdsInputs == {40}
\* The date the detail form's date input is set to.
FormDates == {DayOfYMD(2024, 1, 15)}

InFlight(c) == c \in 1 .. Len(calls) /\ calls[c].step \in {"api", "entries"}

\* A call that has returned: its arguments are gone, what is kept is how it
\* ended.
Returned(call, how) ==
    [call EXCEPT !.step = how, !.updates = <<>>, !.idx = 0]

\* updateOffer(id, updates) is called: apiUpdateOffer is in flight.  task is a
\* history field: the (offerId, date) a resolution is for, <<>> for a save.
StartUpdateOffer(i, id, updates, task) ==
    /\ Len(calls) < MaxCalls
    /\ calls' = Append(calls, [inst |-> i, offerId |-> id, updates |-> updates,
                               found |-> id \in DOMAIN offers[i],
                               step |-> "api", idx |-> 0, task |-> task])

\* DailyCheck.handleResolve for a task of the pending list, task = (offerId,
\* date).
HandleResolve(i, task, revenue, ads) ==
    /\ i \in insts
    /\ ~loading[i]
    /\ task \in PendingTaskSet(offers[i], now, tz)
    /\ millis < MaxNew
    /\ millis' = millis + 1
    /\ LET offer    == offers[i][task[1]]
           newEntry == NewEntry(offer, task[2], revenue, ads, millis + 1)
       IN  StartUpdateOffer(i, offer.id,
                            [dailyEntries |-> <<newEntry>> \o offer.dailyEntries], task)
    /\ UNCHANGED <<now, tz, dbSubs, dbTxs, insts, data, loading, fetches, passes,
                   completed, dbOffers, dbEntries, offers, localOffer>>
    /\ UNCHANGED ledgerVars
    /\ UNCHANGED <<arg, ret, editingSub, subCalls>>

\* An offer card is clicked: OfferDetailModal mounts with localOffer = offer.
OpenOffer(i, o) ==
    /\ i \in insts
    /\ ~loading[i]
    /\ localOffer[i] = <<>>
    /\ o \in DOMAIN offers[i]
    /\ localOffer' = [localOffer EXCEPT ![i] = <<[offer |-> offers[i][o], dirty |-> FALSE]>>]
    /\ UNCHANGED <<now, tz, dbSubs, dbTxs, insts, data, loading, fetches, passes,
                   completed, dbOffers, dbEntries, offers, calls, millis>>
    /\ UNCHANGED ledgerVars
    /\ UNCHANGED <<arg, ret, editingSub, subCalls>>

\* updateLocal(updates): merge into localOffer, hasUnsavedChanges = true.
UpdateLocal(i, updates) ==
    localOffer' = [localOffer EXCEPT ![i] =
        <<[offer |-> [f \in DOMAIN localOffer[i][1].offer |->
                         IF f \in DOMAIN updates THEN updates[f]
                         ELSE localOffer[i][1].offer[f]],
           dirty |-> TRUE]>>]

\* OfferDetailModal.handleAddEntry: the new entry is put in front of
\* localOffer.dailyEntries.
HandleAddEntry(i, date, revenue, ads) ==
    /\ i \in insts
    /\ localOffer[i] # <<>>
    /\ Len(localOffer[i][1].offer.dailyEntries) < MaxEntries
    /\ millis < MaxNew
    /\ millis' = millis + 1
    /\ LET offer == localOffer[i][1].offer
       IN  UpdateLocal(i, [dailyEntries |->
               <<NewEntry(offer, date, revenue, ads, millis + 1)>> \o offer.dailyEntries])
    /\ UNCHANGED <<now, tz, dbSubs, dbTxs, insts, data, loading, fetches, passes,
                   completed, dbOffers, dbEntries, offers, calls>>
    /\ UNCHANGED ledgerVars
    /\ UNCHANGED <<arg, ret, editingSub, subCalls>>

\* OfferDetailModal.deleteEntry(entryId)
DeleteEntry(i, k) ==
    /\ i \in insts
    /\ localOffer[i] # <<>>
    /\ k \in 1 .. Len(localOffer[i][1].offer.dailyEntries)
    /\ LET es == localOffer[i][1].offer.dailyEntries
       IN  UpdateLocal(i, [dailyEntries |-> SelectSeq(es, LAMBDA e : e.id # es[k].id)])
    /\ UNCHANGED <<now, tz, dbSubs, dbTxs, insts, data, loading, fetches, passes,
                   completed, dbOffers, dbEntries, offers, calls, millis>>
    /\ UNCHANGED ledgerVars
    /\ UNCHANGED <<arg, ret, editingSub, subCalls>>

\* The team tab's inputs: updateLocal({payoutModel}) and
\* updateLocal({teamPotPercent: Number(value)}).
EditPayoutModel(i, pm) ==
    /\ i \in insts
    /\ localOffer[i] # <<>>
    /\ UpdateLocal(i, [payoutModel |-> pm])
    /\ UNCHANGED <<now, tz, dbSubs, dbTxs, insts, data, loading, fetches, passes,
                   completed, dbOffers, dbEntries, offers, calls, millis>>
    /\ UNCHANGED ledgerVars
    /\ UNCHANGED <<arg, ret, editingSub, subCalls>>

EditTeamPotPercent(i, pct) ==
    /\ i \in insts
    /\ localOffer[i] # <<>>
    /\ UpdateLocal(i, [teamPotPercent |-> <<pct>>])
    /\ UNCHANGED <<now, tz, dbSubs, dbTxs, insts, data, loading, fetches, passes,
                   completed, dbOffers, dbEntries, offers, calls, millis>>
    /\ UNCHANGED ledgerVars
    /\ UNCHANGED <<arg, ret, editingSub, subCalls>>

\* handleSaveAll: onUpdate(localOffer), then the modal closes.
HandleSaveAll(i) ==
    /\ i \in insts
    /\ localOffer[i] # <<>>
    /\ localOffer[i][1].dirty
    /\ Cardinality({c \in 1 .. Len(calls) : calls[c].task = <<>>}) < MaxSaves
    /\ StartUpdateOffer(i, localOffer[i][1].offer.id, localOffer[i][1].offer, <<>>)
    /\ localOffer' = [localOffer EXCEPT ![i] = <<>>]
    /\ UNCHANGED <<now, tz, dbSubs, dbTxs, insts, data, loading, fetches, passes,
                   completed, dbOffers, dbEntries, offers, millis>>
    /\ UNCHANGED ledgerVars
    /\ UNCHANGED <<arg, ret, editingSub, subCalls>>

\* The modal is closed without saving.
CloseOffer(i) ==
    /\ i \in insts
    /\ localOffer[i] # <<>>
    /\ localOffer' = [localOffer EXCEPT ![i] = <<>>]
    /\ UNCHANGED <<now, tz, dbSubs, dbTxs, insts, data, loading, fetches, passes,
                   completed, dbOffers, dbEntries, offers, calls, millis>>
    /\ UNCHANGED ledgerVars
    /\ UNCHANGED <<arg, ret, editingSub, subCalls>>

\* apiUpdateOffer's coreUpdates: of the fields modelled, status, startDate and
\* endDate are copied when truthy; payoutModel, teamPotPercent, participants
\* and dailyEntries are not.
OfferCorePayload(updates) ==
    [f \in {g \in (DOMAIN updates) \cap {"status", "startDate", "endDate"} :
                g = "endDate" => updates[g] # <<>>}
        |-> updates[f]]

\* supabase.from('offers').update(coreUpdates).eq('id', id)
DbUpdateOffer(dbO, id, payload) ==
    IF id \in DOMAIN dbO
    THEN [dbO EXCEPT ![id] =
            [status           |-> IF "status" \in DOMAIN payload
                                  THEN payload.status ELSE @.status,
             payout_model     |-> @.payout_model,
             team_pot_percent |-> @.team_pot_percent,
             start_date       |-> IF "startDate" \in DOMAIN payload
                                  THEN payload.startDate ELSE @.start_date,
             end_date         |-> IF "endDate" \in DOMAIN payload
                                  THEN payload.endDate ELSE @.end_date]]
    ELSE dbO

\* await apiUpdateOffer(id, updates) of call c returns (it never throws).  With
\* dailyEntries in the updates the entry loop starts, or, the array being
\* empty, loadData() is called at once; without, the offer is merged into
\* data.offers.
UpdateOfferApiDone(c) ==
    /\ InFlight(c)
    /\ calls[c].step = "api"
    /\ LET u == calls[c].updates
           i == calls[c].inst
           o == calls[c].offerId
       IN  /\ dbOffers' = DbUpdateOffer(dbOffers, o, OfferCorePayload(u))
           /\ IF "dailyEntries" \in DOMAIN u
              THEN IF calls[c].found /\ Len(u.dailyEntries) > 0
                   THEN /\ calls' = [calls EXCEPT ![c].step = "entries", ![c].idx = 1]
                        /\ UNCHANGED <<loading, fetches, localOffer, offers, editingSub>>
                   ELSE /\ calls' = [calls EXCEPT ![c] = Returned(@, "done")]
                        /\ LoadData(i)
                        /\ UNCHANGED offers
              ELSE /\ calls' = [calls EXCEPT ![c] = Returned(@, "done")]
                   /\ offers' = [offers EXCEPT ![i] =
                         [x \in DOMAIN offers[i] |->
                            IF x # o THEN offers[i][x]
                            ELSE [f \in DOMAIN offers[i][x] |->
                                    IF f \in DOMAIN u THEN u[f] ELSE offers[i][x][f]]]]
                   /\ UNCHANGED <<loading, fetches, localOffer, editingSub>>
    /\ UNCHANGED <<now, tz, dbSubs, dbTxs, insts, data, passes, completed,
                   dbEntries, millis>>
    /\ UNCHANGED ledgerVars
    /\ UNCHANGED <<arg, ret, subCalls>>

\* supabase.from('daily_entries').insert(...) of apiAddDailyEntry: the row
\* gets the next id; net_profit is not among the columns sent, so the table
\* fills it (a default, or a column computed from revenue and ads_spend).
DbInsertEntry(dbE, offerId, entry) ==
    LET id == 1 + Cardinality(dbE)
    IN  {dbE \cup {[id |-> id, offer_id |-> offerId, date |-> entry.date,
                    revenue |-> entry.revenue, ads_spend |-> entry.adsSpend,
                    net_profit |-> np, team_share |-> entry.teamShare]} :
            np \in {0, entry.revenue - entry.adsSpend}}

\* supabase.from('daily_entries').update(payload).eq('id', id) of
\* apiUpdateDailyEntry: revenue, ads_spend and team_share of the row whose id
\* is the entry's; an id the table did not hand out matches no row.
DbUpdateEntry(dbE, entry) ==
    {IF entry.id.kind = "uuid" /\ e.id = entry.id.n
     THEN [e EXCEPT !.revenue = entry.revenue, !.ads_spend = entry.adsSpend,
                    !.team_share = entry.teamShare]
     ELSE e : e \in dbE}

\* One await of updateOffer's entry loop returns: apiAddDailyEntry for an
\* entry that passes the new-entry test, apiUpdateDailyEntry otherwise.  After
\* the last entry loadData() is called.
UpdateOfferEntryDone(c) ==
    /\ InFlight(c)
    /\ calls[c].step = "entries"
    /\ LET es    == calls[c].updates.dailyEntries
           entry == es[calls[c].idx]
           i     == calls[c].inst
       IN  /\ IF IsNewEntryId(entry.id)
              THEN dbEntries' \in DbInsertEntry(dbEntries, calls[c].offerId, entry)
              ELSE dbEntries' = DbUpdateEntry(dbEntries, entry)
           /\ IF calls[c].idx < Len(es)
              THEN /\ calls' = [calls EXCEPT ![c].idx = @ + 1]
                   /\ UNCHANGED <<loading, fetches, localOffer, editingSub>>
              ELSE /\ calls' = [calls EXCEPT ![c] = Returned(@, "done")]
                   /\ LoadData(i)
    /\ UNCHANGED <<now, tz, dbSubs, dbTxs, insts, data, passes, completed,
                   dbOffers, offers, millis>>
    /\ UNCHANGED ledgerVars
    /\ UNCHANGED <<arg, ret, subCalls>>

\* apiAddDailyEntry or apiUpdateDailyEntry throws: updateOffer's catch logs
\* the error and the call ends, without loadData().
UpdateOfferEntryFails(c) ==
    /\ InFlight(c)
    /\ calls[c].step = "entries"
    /\ calls' = [calls EXCEPT ![c] = Returned(@, "caught")]
    /\ UNCHANGED <<now, tz, dbSubs, dbTxs, insts, data, loading, fetches, passes,
                   completed, dbOffers, dbEntries, offers, localOffer, millis>>
    /\ UNCHANGED ledgerVars
    /\ UNCHANGED <<arg, ret, editingSub, subCalls>>

-----------------------------------------------------------------------------
(* Renders examined on their own: a computed value as a function of the     *)
(* props it is computed from                                                *)

\* Everything but arg and ret.
appVars == <<now, tz, dbSubs, dbTxs, insts, data, loading, fetches, passes,
             completed, dbOffers, dbEntries, offers, localOffer, calls, millis,
             editingSub, subCalls, dbServices, services, transactions, toast>>

\* No instance is open: only arg and ret change.
InitRender(inputs) ==
    /\ arg \in inputs
    /\ ret = <<>>
    /\ now \in ClockInstants
    /\ tz = 0
    /\ dbSubs = NoRows
    /\ dbTxs = <<>>
    /\ insts = {}
    /\ data = [i \in Inst |-> NoRows]
    /\ loading = [i \in Inst |-> TRUE]
    /\ fetches = [i \in Inst |-> 0]
    /\ passes = <<>>
    /\ completed = {}
    /\ dbOffers = NoRows
    /\ dbEntries = {}
    /\ offers = [i \in Inst |-> NoRows]
    /\ localOffer = [i \in Inst |-> <<>>]
    /\ calls = <<>>
    /\ millis = 0
    /\ editingSub = [i \in Inst |-> <<>>]
    /\ subCalls = <<>>
    /\ dbServices = NoRows
    /\ services = [i \in Inst |-> NoRows]
    /\ transactions = [i \in Inst |-> <<>>]
    /\ toast = [i \in Inst |-> <<>>]

\* The offer's entry table is rendered: calculateDynamicEntryShare of every
\* entry, and totalTeamPayout.
RenderEntryShares ==
    /\ ret = <<>>
    /\ ret' = <<[fn |-> "calculateDynamicEntryShare",
                 val |-> [k \in 1 .. Len(arg.offer.dailyEntries) |->
                            CalculateDynamicEntryShare(arg.offer, arg.offer.dailyEntries[k])],
                 total |-> TotalTeamPayout(arg.offer)]>>
    /\ UNCHANGED <<arg, appVars>>

\* handleResolve / handleAddEntry build the entry for the form's inputs.
BuildNewEntry ==
    /\ ret = <<>>
    /\ ret' = <<[fn |-> "newEntry",
                 val |-> NewEntry(arg.offer, arg.form.date, arg.form.revenue,
                                  arg.form.ads, 1)]>>
    /\ UNCHANGED <<arg, appVars>>

\* The team table is rendered: every participant's slice of every entry and
\* memberTotalEarnings.
RenderMemberEarnings ==
    /\ ret = <<>>
    /\ LET ps == arg.offer.participants
           es == arg.offer.dailyEntries
       IN  ret' = <<[fn |-> "memberTotalEarnings",
                     slices |-> [p \in 1 .. Len(ps) |->
                                   [k \in 1 .. Len(es) |-> MemberSlice(arg.offer, es[k], ps[p])]],
                     val |-> [p \in 1 .. Len(ps) |-> MemberTotalEarnings(arg.offer, ps[p])]]>>
    /\ UNCHANGED <<arg, appVars>>

\* datesToCheck of App's pendingChecksCount: for i = 0 .. 29, d = new Date();
\* d.setDate(d.getDate() - i) moves the local day and keeps the local time,
\* and d.toISOString().split('T')[0] is the UTC day of that instant.
DatesToCheckISO(instant, off) ==
    LET ld   == LocalDate(instant, off)
        hour == (instant + off) % 24
    IN  [k \in 1 .. WindowDays |->
            UTCDate((DayOfYMD(YearOf(ld), MonthOf(ld), DomOf(ld) - (k - 1)) * 24)
                       + hour - off)]

\* pendingChecksCount, the number on the navigation badge.
PendingChecksCount(offs, instant, off) ==
    Cardinality({t \in (DOMAIN offs) \X SeqRange(DatesToCheckISO(instant, off)) :
        LET offer == offs[t[1]]
            date  == t[2]
        IN  /\ offer.status = "ACTIVE"
            /\ ~(date < offer.startDate)
            /\ ~(offer.endDate # <<>> /\ date > offer.endDate[1])
            /\ ~(\E k \in 1 .. Len(offer.dailyEntries) :
                    offer.dailyEntries[k].date = date)})

\* todayStr of DailyCheck's render, from the local date parts of new Date().
TodayStr(instant, off) ==
    LET ld == LocalDate(instant, off)
    IN  DayOfYMD(YearOf(ld), MonthOf(ld), DomOf(ld))

\* tasksToday and tasksOverdue
TasksToday(tasks, todayStr) == SelectSeq(tasks, LAMBDA t : t[2] = todayStr)

TasksOverdue(tasks, todayStr) == SelectSeq(tasks, LAMBDA t : t[2] # todayStr)

\* App and DailyCheck are rendered for a snapshot: the memoised
\* pendingChecksCount, pendingTasks and complianceRate are computed, and the
\* groups from this render's clock reading.  at is when pendingTasks was computed, now when the groups were;
\* val is pendingTasks as a set of pairs.
RenderPendingTasks ==
    /\ ret = <<>>
    /\ LET tasks == PendingTasks(arg.offers, arg.instant, arg.off)
           today == TodayStr(arg.instant, arg.off)
       IN  ret' = <<[fn |-> "pendingTasks", at |-> arg.instant, now |-> arg.instant,
                     val |-> PendingTaskSet(arg.offers, arg.instant, arg.off),
                     tasks |-> tasks,
                     tasksToday |-> TasksToday(tasks, today),
                     tasksOverdue |-> TasksOverdue(tasks, today),
                     complianceRate |-> ComplianceRate(arg.offers, SeqRange(tasks)),
                     pendingChecksCount |->
                         PendingChecksCount(arg.offers, arg.instant, arg.off)]>>
    /\ UNCHANGED <<arg, appVars>>

\* Twelve hours pass while the page stays open.
ClockPasses ==
    /\ ret # <<>>
    /\ arg.instant = ret[1].at
    /\ arg' = [arg EXCEPT !.instant = @ + 12]
    /\ UNCHANGED <<ret, appVars>>

\* DailyCheck renders again with data.offers unchanged (a task is selected,
\* the modal closes): the useMemo values are kept, now and the two groups
\* are computed anew.
RenderAgain ==
    /\ ret # <<>>
    /\ ret[1].now # arg.instant
    /\ LET today == TodayStr(arg.instant, arg.off)
       IN  ret' = <<[ret[1] EXCEPT !.now = arg.instant,
                                  !.tasksToday = TasksToday(ret[1].tasks, today),
                                  !.tasksOverdue = TasksOverdue(ret[1].tasks, today)]>>
    /\ UNCHANGED <<arg, appVars>>

\* Entries as the snapshot holds them; netProfit is the stored column, which
\* need not be revenue - adsSpend.
ShareEntry(n, revenue, ads, netProfit) ==
    [id |-> [kind |-> "uuid", n |-> n], date |-> DayOfYMD(2024, 1, 10) + n,
     revenue |-> revenue, adsSpend |-> ads, netProfit |-> netProfit,
     teamShare |-> 0]

Participants(percents) ==
    [k \in 1 .. Len(percents) |-> [memberId |-> k, sharePercent |-> percents[k]]]

ShareInputs ==
    [offer : [payoutModel : PayoutModels,
              teamPotPercent : {<<>>, <<0>>, <<20>>, <<50>>},
              participants : {Participants(q) :
                  q \in {<<>>, <<<<100>>>>, <<<<50>>, <<50>>>>, <<<<60>>, <<30>>>>,
                         <<<<25>>, <<25>>, <<50>>>>, <<<<50>>, <<>>>>}},
              dailyEntries : {<<>>,
                              <<ShareEntry(1, 100, 40, 60)>>,
                              <<ShareEntry(1, 100, 40, 60), ShareEntry(2, 250, 300, -50)>>,
                              <<ShareEntry(1, 100, 40, 0)>>}],
     form : [date : {DayOfYMD(2024, 1, 15)}, revenue : {0, 100}, ads : {0, 40}]]

InitShares == InitRender(ShareInputs)

NextShares ==
    \/ RenderEntryShares
    \/ BuildNewEntry
    \/ RenderMemberEarnings

\* The commission formulas applied to offers, entries and participants.
SpecShares == InitShares /\ [][NextShares]_vars

\* The percentages of the team table's inputs (type number, step 0.1) are
\* numbers with at most one decimal, read with Number(e.target.value); here a
\* sharePercent is written in tenths of a percent.  The double the code holds
\* for such a number, and for a sum of them, is [k, e]: ten times its value is
\* k + e / 2^56, with k the exact number of tenths and e the rounding error.

\* 2^n modulo 20
Pow2Mod20(n) ==
    CASE n = 0 -> 1
      [] n = 1 -> 2
      [] OTHER -> <<16, 12, 4, 8>>[(n % 4) + 1]

\* The number of binary places of the doubles of the binade of the value
\* (k + e / 2^56) / 10, k > 0.
FracBits(k, e) ==
    LET j == CHOOSE x \in 0 .. 12 : 10 * Pow2(x) <= 16 * k /\ 16 * k < 10 * Pow2(x + 1)
    IN  IF e < 0 /\ 16 * k = 10 * Pow2(j) THEN 57 - j ELSE 56 - j

\* Round to nearest, ties to even: the error of the double with n binary
\* places nearest to (k + rest / 2^56) / 10.  k * 2^n = 10 * Q + R.
RoundAt(k, rest, n) ==
    LET T   == ((k % 20) * Pow2Mod20(n)) % 20
        R   == T % 10
        sh  == Pow2(56 - n)
        M   == 10 * sh
        r0  == (R * sh) + rest
        dq  == r0 \div M
        rem == r0 % M
        odd == ((T \div 10) + dq) % 2
        up  == (2 * rem > M) \/ (2 * rem = M /\ odd = 1)
    IN  (M * (dq + (IF up THEN 1 ELSE 0))) - (R * sh)

\* Number(value) of an input holding t tenths
NumberOfTenths(t) ==
    [k |-> t, e |-> IF t = 0 THEN 0 ELSE RoundAt(t, 0, FracBits(t, 0))]

\* x + y
DoublePlus(x, y) ==
    CASE x.k = 0 -> y
      [] y.k = 0 -> x
      [] OTHER   -> [k |-> x.k + y.k,
                     e |-> RoundAt(x.k + y.k, x.e + y.e, FracBits(x.k + y.k, x.e + y.e))]

\* Math.abs(x - 100)
AbsMinus100(x) ==
    LET k == x.k - 1000
    IN  CASE k = 0 -> [k |-> 0, e |-> IF x.e < 0 THEN 0 - x.e ELSE x.e]
          [] k > 0 -> [k |-> k, e |-> RoundAt(k, x.e, FracBits(k, x.e))]
          [] k < 0 -> [k |-> 0 - k, e |-> RoundAt(0 - k, 0 - x.e, FracBits(0 - k, 0 - x.e))]

RECURSIVE TotalDistributedUpTo(_, _)
TotalDistributedUpTo(participants, n) ==
    IF n = 0 THEN NumberOfTenths(0)
    ELSE DoublePlus(TotalDistributedUpTo(participants, n - 1),
                    NumberOfTenths(participants[n].sharePercent))

\* totalDistributed of the team table
TotalDistributed(participants) == TotalDistributedUpTo(participants, Len(participants))

\* isInvalid of the team table: the warning colour, icon and text are shown
\* when it is true.
IsInvalid(participants) ==
    LET x == AbsMinus100(TotalDistributed(participants))
        y == NumberOfTenths(1)
    IN  /\ x.k > y.k \/ (x.k = y.k /\ x.e > y.e)
        /\ Len(participants) > 0

\* The team table's footer is rendered for the form's participants.
RenderTeamFooter ==
    /\ ret = <<>>
    /\ ret' = <<[fn |-> "isInvalid",
                 totalDistributed |-> TotalDistributed(arg.participants),
                 val |-> IsInvalid(arg.participants)]>>
    /\ UNCHANGED <<arg, appVars>>

\* Up to three participants with the percentages typed into the team table.
FooterInputs ==
    [participants :
        UNION {[1 .. n -> [memberId : {1},
                           sharePercent : {0, 1, 2, 250, 333, 334, 499, 500, 998, 999, 1000}]] :
                  n \in 0 .. 3}]

InitFooter == InitRender(FooterInputs)

\* The distribution warning applied to lists of participants.
SpecFooter == InitFooter /\ [][RenderTeamFooter]_vars

\* Exchange rates are written in hundredths (5.85 is 585), amounts in
\* hundredths of a currency unit.  A converted amount is [n, d]: its value is
\* n / d hundredths.  A rate table is a function from the currency codes it
\* has to their rates.

\* MOCK_RATES, for the currencies of the model
MOCK_RATES == [BRL |-> 100, USD |-> 585, EUR |-> 615]

\* convertToBRL: rate = rates[currency] || MOCK_RATES[currency] || 1
ConvertToBRL(amount, currency, rates) ==
    LET rate == IF currency \in DOMAIN rates /\ rates[currency] # 0
                THEN rates[currency]
                ELSE IF currency \in DOMAIN MOCK_RATES /\ MOCK_RATES[currency] # 0
                     THEN MOCK_RATES[currency]
                     ELSE 100
    IN  [n |-> amount * rate, d |-> 100]

\* convertFromBRL of Financials, Dashboard and Services: the amount itself
\* under BRL, else amount / (rates[visualizationCurrency] || 1)
ConvertFromBRL(amount, visualizationCurrency, rates) ==
    IF visualizationCurrency = "BRL" THEN amount
    ELSE LET rate == IF visualizationCurrency \in DOMAIN rates
                        /\ rates[visualizationCurrency] # 0
                     THEN rates[visualizationCurrency]
                     ELSE 100
         IN  [n |-> amount.n * 100, d |-> amount.d * rate]

\* formatCurrency: the amount rounded to hundredths, halves away from zero
\* (amounts here are not negative).
FormatCurrency(amount) == ((2 * amount.n) + amount.d) \div (2 * amount.d)

\* An amount entered in a currency is converted for storage (handleTxSubmit,
\* handleSubSubmit, handlePaySub) and shown again in that currency.
RenderConverted ==
    /\ ret = <<>>
    /\ LET stored == ConvertToBRL(arg.amount, arg.currency, arg.rates)
       IN  ret' = <<[fn |-> "convertFromBRL", stored |-> stored,
                     shown |-> FormatCurrency(
                                  ConvertFromBRL(stored, arg.currency, arg.rates))]>>
    /\ UNCHANGED <<arg, appVars>>

\* The rate table before fetchExchangeRates has returned ({}), the fallback
\* table, and tables built from the service's answer, with and without EUR.
ConversionInputs ==
    [amount : {0, 1, 100, 1999, 2505, 10000},
     currency : {"BRL", "USD", "EUR"},
     rates : {NoRows, MOCK_RATES, [BRL |-> 100, USD |-> 500, EUR |-> 625],
              [BRL |-> 100, USD |-> 500]}]

InitConversion == InitRender(ConversionInputs)

\* The currency conversions applied to amounts, currencies and rate tables.
SpecConversion == InitConversion /\ [][RenderConverted]_vars

ScanOffer(status, start, end, dates) ==
    [status |-> status, startDate |-> start, endDate |-> end,
     dailyEntries |-> [k \in 1 .. Len(dates) |-> [date |-> dates[k]]]]

\* Offer 1 varies; offer 2 has the dates of the 2024-01-10 scenario and is
\* paused or ended.
ScanInputs ==
    [offers : {<<ScanOffer(st, start, end, dates), ScanOffer(st2, DayOfYMD(2024, 1, 10), <<>>, <<>>)>> :
                  st \in {"ACTIVE", "PAUSED", "ENDED"},
                  start \in {DayOfYMD(2023, 12, 1), DayOfYMD(2024, 1, 10), DayOfYMD(2024, 2, 28)},
                  end \in {<<>>, <<DayOfYMD(2024, 1, 12)>>, <<DayOfYMD(2024, 2, 29)>>},
                  dates \in {<<>>, <<DayOfYMD(2024, 1, 12)>>,
                             <<DayOfYMD(2024, 1, 10), DayOfYMD(2024, 2, 29)>>},
                  st2 \in {"PAUSED", "ENDED"}},
     instant : {(DayOfYMD(2024, 1, 15) * 24) + 12, (DayOfYMD(2024, 3, 1) * 24) + 1,
                (DayOfYMD(2025, 1, 10) * 24) + 23},
     off : TZOffsets]

\* n Active offers scanned on 2024-01-15: the first c started the day after
\* and miss nothing, the others started that day and have no entry.
RateOffers(n, c) ==
    [o \in 1 .. n |->
        ScanOffer("ACTIVE", DayOfYMD(2024, 1, IF o <= c THEN 16 ELSE 15), <<>>, <<>>)]

RateInputs ==
    [offers : {RateOffers(nc[1], nc[2]) :
                  nc \in {x \in {0, 1, 2, 3, 40} \X (0 .. 40) : x[2] <= x[1]}},
     instant : {(DayOfYMD(2024, 1, 15) * 24) + 12},
     off : {0}]

InitScan == InitRender(ScanInputs \cup RateInputs)

NextScan ==
    \/ RenderPendingTasks
    \/ ClockPasses
    \/ RenderAgain

\* The compliance scan applied to snapshots and clock readings.
SpecScan == InitScan /\ [][NextScan]_vars

\* The stored subscriptions a run may start from: the first takes every
\* combination of flags, due date and cycle, the second is a monthly autoPay
\* subscription that is two cycles behind or not yet due.
SubRows(id) ==
    IF id = 1
    THEN [id : {id}, active : BOOLEAN, autoPay : BOOLEAN, nextPaymentDate : NextDates,
          billingCycle : Cycles, amount : {AmountOf(id)}]
    ELSE [id : {id}, active : {TRUE}, autoPay : {TRUE},
          nextPaymentDate : {DayOfYMD(2023, 11, 30), DayOfYMD(2024, 3, 10)},
          billingCycle : {"Mensal"}, amount : {AmountOf(id)}]

InitBilling(open) ==
    /\ now \in ClockInstants
    /\ tz \in TZOffsets
    /\ dbSubs \in {f \in [SubIds -> UNION {SubRows(id) : id \in SubIds}] :
                      \A id \in SubIds : f[id].id = id}
    /\ dbTxs = <<>>
    /\ insts = open
    /\ data = [i \in Inst |-> NoRows]
    /\ loading = [i \in Inst |-> TRUE]
    /\ fetches = [i \in Inst |-> IF i \in open THEN 1 ELSE 0]
    /\ passes = <<>>
    /\ completed = {}
    /\ dbOffers = NoRows
    /\ dbEntries = {}
    /\ offers = [i \in Inst |-> NoRows]
    /\ localOffer = [i \in Inst |-> <<>>]
    /\ calls = <<>>
    /\ millis = 0
    /\ editingSub = [i \in Inst |-> <<>>]
    /\ subCalls = <<>>
    /\ dbServices = NoRows
    /\ services = [i \in Inst |-> NoRows]
    /\ transactions = [i \in Inst |-> <<>>]
    /\ toast = [i \in Inst |-> <<>>]
    /\ arg = <<>>
    /\ ret = <<>>

Init == InitBilling(Inst)

Next ==
    \/ \E i \in Inst : FetchAllDataDone(i)
    \/ \E p \in 1 .. MaxPasses : PassAddTransaction(p)
    \/ \E p \in 1 .. MaxPasses : PassAddTransactionFails(p)
    \/ \E p \in 1 .. MaxPasses : PassUpdateSubscription(p)
    \/ \E p \in 1 .. MaxPasses : PassUpdateSubscriptionFails(p)
    \/ \E i \in Inst : PageReload(i)

\* Two application instances (browser tabs) on one database.
Spec == Init /\ [][Next]_vars

\* One application instance alone on the database.
InitOne == InitBilling({1})

SpecOne == InitOne /\ [][Next]_vars

\* One application instance whose user also edits subscriptions.
NextEdit ==
    \/ Next
    \/ \E i \in Inst : \E s \in SubIds : HandleStartEdit(i, s)
    \/ \E i \in Inst : \E active, autoPay \in BOOLEAN : HandleSubSubmit(i, active, autoPay)
    \/ \E c \in 1 .. MaxSubCalls : UpdateSubscriptionDone(c)
    \/ \E c \in 1 .. MaxSubCalls : UpdateSubscriptionFails(c)

SpecEdit == InitOne /\ [][NextEdit]_vars

\* 2024-02-01T12:00Z: the clock of a run on the first day of a month.
MonthEndInstants == {(DayOfYMD(2024, 2, 1) * 24) + 12}

\* The subscriptions of such a run: the first is active with autoPay and was
\* due on a last or first day of a month or in the middle of one, the second
\* is not due yet.
MonthEndRows(id) ==
    IF id = 1
    THEN [id : {id}, active : {TRUE}, autoPay : {TRUE},
          nextPaymentDate : {DayOfYMD(2023, 12, 31), DayOfYMD(2024, 1, 15),
                             DayOfYMD(2024, 1, 31), DayOfYMD(2024, 2, 1)},
          billingCycle : Cycles, amount : {AmountOf(id)}]
    ELSE [id : {id}, active : {TRUE}, autoPay : {TRUE},
          nextPaymentDate : {DayOfYMD(2024, 3, 10)},
          billingCycle : {"Mensal"}, amount : {AmountOf(id)}]

\* One application instance that is opened on 2024-02-01.
InitMonthEnd ==
    /\ now \in MonthEndInstants
    /\ tz \in TZOffsets
    /\ dbSubs \in {f \in [SubIds -> UNION {MonthEndRows(id) : id \in SubIds}] :
                      \A id \in SubIds : f[id].id = id}
    /\ dbTxs = <<>>
    /\ insts = {1}
    /\ data = [i \in Inst |-> NoRows]
    /\ loading = [i \in Inst |-> TRUE]
    /\ fetches = [i \in Inst |-> IF i = 1 THEN 1 ELSE 0]
    /\ passes = <<>>
    /\ completed = {}
    /\ dbOffers = NoRows
    /\ dbEntries = {}
    /\ offers = [i \in Inst |-> NoRows]
    /\ localOffer = [i \in Inst |-> <<>>]
    /\ calls = <<>>
    /\ millis = 0
    /\ editingSub = [i \in Inst |-> <<>>]
    /\ subCalls = <<>>
    /\ dbServices = NoRows
    /\ services = [i \in Inst |-> NoRows]
    /\ transactions = [i \in Inst |-> <<>>]
    /\ toast = [i \in Inst |-> <<>>]
    /\ arg = <<>>
    /\ ret = <<>>

SpecMonthEnd == InitMonthEnd /\ [][Next]_vars

\* One application instance that is opened on 2024-03-01T12:00Z and left
\* alone.  The first subscription was due at the end of January, in the
\* middle or at the end of February, or is not due yet; the second is monthly
\* and two cycles behind, or not due yet.
InitChain ==
    /\ now = (DayOfYMD(2024, 3, 1) * 24) + 12
    /\ tz \in TZOffsets
    /\ dbSubs \in
          {f \in [SubIds ->
                    [id : {1}, active : {TRUE}, autoPay : BOOLEAN,
                     nextPaymentDate : {DayOfYMD(2024, 1, 31), DayOfYMD(2024, 2, 15),
                                        DayOfYMD(2024, 2, 29), DayOfYMD(2024, 3, 10)},
                     billingCycle : Cycles, amount : {AmountOf(1)}]
                    \cup
                    [id : {2}, active : {TRUE}, autoPay : {TRUE},
                     nextPaymentDate : {DayOfYMD(2024, 1, 15), DayOfYMD(2024, 3, 10)},
                     billingCycle : {"Mensal"}, amount : {AmountOf(2)}]] :
              \A id \in SubIds : f[id].id = id}
    /\ dbTxs = <<>>
    /\ insts = {1}
    /\ data = [i \in Inst |-> NoRows]
    /\ loading = [i \in Inst |-> TRUE]
    /\ fetches = [i \in Inst |-> IF i = 1 THEN 1 ELSE 0]
    /\ passes = <<>>
    /\ completed = {}
    /\ dbOffers = NoRows
    /\ dbEntries = {}
    /\ offers = [i \in Inst |-> NoRows]
    /\ localOffer = [i \in Inst |-> <<>>]
    /\ calls = <<>>
    /\ millis = 0
    /\ editingSub = [i \in Inst |-> <<>>]
    /\ subCalls = <<>>
    /\ dbServices = NoRows
    /\ services = [i \in Inst |-> NoRows]
    /\ transactions = [i \in Inst |-> <<>>]
    /\ toast = [i \in Inst |-> <<>>]
    /\ arg = <<>>
    /\ ret = <<>>

\* Every write succeeds and the page is left open.
NextChain ==
    \/ \E i \in Inst : FetchAllDataDone(i)
    \/ \E p \in 1 .. MaxPasses : PassAddTransaction(p)
    \/ \E p \in 1 .. MaxPasses : PassUpdateSubscription(p)

\* The chain of passes and reloads; every awaited call returns.
SpecChain == InitChain /\ [][NextChain]_vars /\ WF_vars(NextChain)

\* The stored offers a run of the offer pages may start from.
OfferRows(id) ==
    IF id = 1
    THEN [status : {"ACTIVE"}, payout_model : {"REVENUE"},
          team_pot_percent : {20}, start_date : {DayOfYMD(2024, 1, 14)},
          end_date : {<<>>}]
    ELSE [status : {"ACTIVE"}, payout_model : {"PROFIT"},
          team_pot_percent : {50}, start_date : {DayOfYMD(2024, 1, 15)},
          end_date : {<<>>}]

\* The stored entries: one entry of offer 1 whose team_share was cached when
\* it was created, under the configuration the offer had then.
EntryRows ==
    [id : {1}, offer_id : {1}, date : {DayOfYMD(2024, 1, 14)}, revenue : {100},
     ads_spend : {40}, net_profit : {60},
     team_share : {100 * 20, 60 * 50}]

InitOffers ==
    /\ now \in ClockInstants
    /\ tz = 0
    /\ dbSubs = NoRows
    /\ dbTxs = <<>>
    /\ insts = {1}
    /\ data = [i \in Inst |-> NoRows]
    /\ loading = [i \in Inst |-> TRUE]
    /\ fetches = [i \in Inst |-> IF i = 1 THEN 1 ELSE 0]
    /\ passes = <<>>
    /\ completed = {}
    /\ dbOffers \in {f \in [OfferIds -> UNION {OfferRows(id) : id \in OfferIds}] :
                        \A id \in OfferIds : f[id] \in OfferRows(id)}
    /\ dbEntries \in {{e} : e \in EntryRows}
    /\ offers = [i \in Inst |-> NoRows]
    /\ localOffer = [i \in Inst |-> <<>>]
    /\ calls = <<>>
    /\ millis = 0
    /\ editingSub = [i \in Inst |-> <<>>]
    /\ subCalls = <<>>
    /\ dbServices = NoRows
    /\ services = [i \in Inst |-> NoRows]
    /\ transactions = [i \in Inst |-> <<>>]
    /\ toast = [i \in Inst |-> <<>>]
    /\ arg = <<>>
    /\ ret = <<>>

NextOffers ==
    \/ \E i \in Inst : FetchAllDataDone(i)
    \/ \E i \in Inst : \E task \in PendingTaskSet(offers[i], now, tz),
          r \in RevenueInputs, a \in AdsInputs : HandleResolve(i, task, r, a)
    \/ \E i \in Inst, o \in OfferIds : OpenOffer(i, o)
    \/ \E i \in Inst, d \in FormDates, r \in RevenueInputs, a \in AdsInputs :
          HandleAddEntry(i, d, r, a)
    \/ \E i \in Inst, k \in 1 .. MaxEntries : DeleteEntry(i, k)
    \/ \E i \in Inst, pm \in PayoutModels : EditPayoutModel(i, pm)
    \/ \E i \in Inst, pct \in PotPercents : EditTeamPotPercent(i, pct)
    \/ \E i \in Inst : HandleSaveAll(i)
    \/ \E i \in Inst : CloseOffer(i)
    \/ \E c \in 1 .. MaxCalls : UpdateOfferApiDone(c)
    \/ \E c \in 1 .. MaxCalls : UpdateOfferEntryDone(c)
    \/ \E c \in 1 .. MaxCalls : UpdateOfferEntryFails(c)

\* One application instance with the offer pages and the Daily Check page.
SpecOffers == InitOffers /\ [][NextOffers]_vars

\* The same instance where the user only adds entries: resolutions on the
\* Daily Check page, entries added in the detail form, and saves.
NextEntries ==
    \/ \E i \in Inst : FetchAllDataDone(i)
    \/ \E i \in Inst : \E task \in PendingTaskSet(offers[i], now, tz),
          r \in RevenueInputs, a \in AdsInputs : HandleResolve(i, task, r, a)
    \/ \E i \in Inst, o \in OfferIds : OpenOffer(i, o)
    \/ \E i \in Inst, d \in FormDates, r \in RevenueInputs, a \in AdsInputs :
          HandleAddEntry(i, d, r, a)
    \/ \E i \in Inst : HandleSaveAll(i)
    \/ \E c \in 1 .. MaxCalls : UpdateOfferApiDone(c)
    \/ \E c \in 1 .. MaxCalls : UpdateOfferEntryDone(c)
    \/ \E c \in 1 .. MaxCalls : UpdateOfferEntryFails(c)

SpecEntries == InitOffers /\ [][NextEntries]_vars

ServiceIds == {1, 2}

\* The stored services: each may belong to offer 1.
ServiceRows(id) == [id : {id}, offerId : {0, 1}]

\* The stored transactions a run with deletions starts from: each carries one
\* link, to a service, an offer or a subscription that is stored.
LinkedTxRows ==
    {[subscriptionId |-> IF l = "subscriptionId" THEN id ELSE 0,
      serviceId |-> IF l = "serviceId" THEN id ELSE 0,
      offerId |-> IF l = "offerId" THEN id ELSE 0,
      amount |-> 100, type |-> "EXPENSE", status |-> "PAID",
      date |-> DayOfYMD(2024, 1, 10), pass |-> 0, due |-> 0] :
        l \in Links, id \in {1, 2}}

\* One application instance on a database that holds offers, services,
\* subscriptions that are not due, and two linked transactions.
InitDelete ==
    /\ now \in ClockInstants
    /\ tz = 0
    /\ dbSubs \in {f \in [SubIds -> UNION {SubRows(id) : id \in SubIds}] :
                      \A id \in SubIds :
                          /\ f[id].id = id
                          /\ f[id].active /\ f[id].autoPay
                          /\ f[id].billingCycle = "Mensal"
                          /\ f[id].nextPaymentDate = DayOfYMD(2024, 3, 10)}
    /\ dbTxs \in [1 .. 2 -> LinkedTxRows]
    /\ insts = {1}
    /\ data = [i \in Inst |-> NoRows]
    /\ loading = [i \in Inst |-> TRUE]
    /\ fetches = [i \in Inst |-> IF i = 1 THEN 1 ELSE 0]
    /\ passes = <<>>
    /\ completed = {}
    /\ dbOffers \in {f \in [OfferIds -> UNION {OfferRows(id) : id \in OfferIds}] :
                        \A id \in OfferIds : f[id] \in OfferRows(id)}
    /\ dbEntries = {}
    /\ offers = [i \in Inst |-> NoRows]
    /\ localOffer = [i \in Inst |-> <<>>]
    /\ calls = <<>>
    /\ millis = 0
    /\ editingSub = [i \in Inst |-> <<>>]
    /\ subCalls = <<>>
    /\ dbServices \in {f \in [ServiceIds -> UNION {ServiceRows(id) : id \in ServiceIds}] :
                          \A id \in ServiceIds : f[id].id = id}
    /\ services = [i \in Inst |-> NoRows]
    /\ transactions = [i \in Inst |-> <<>>]
    /\ toast = [i \in Inst |-> <<>>]
    /\ arg = <<>>
    /\ ret = <<>>

NextDelete ==
    \/ \E i \in Inst : FetchAllDataDone(i)
    \/ \E i \in Inst, id \in ServiceIds : DeleteService(i, id)
    \/ \E i \in Inst, id \in OfferIds : DeleteOffer(i, id)
    \/ \E i \in Inst, id \in SubIds : DeleteSubscription(i, id)
    \/ \E i \in Inst : DeleteFails(i)
    \/ \E i \in Inst : PageReload(i)

SpecDelete == InitDelete /\ [][NextDelete]_vars

-----------------------------------------------------------------------------
(* Claims about the billing pass *)

TxIdx == 1 .. Len(dbTxs)

\* The transactions pass p posted for subscription s.
TxOf(p, s) == {a \in TxIdx : dbTxs[a].pass = p /\ dbTxs[a].subscriptionId = s}

\* C1: two passes that run concurrently on the same snapshot never both post a
\* transaction for the same due cycle of a subscription.
C1_ConcurrentPassesChargeOnce ==
    \A a \in TxIdx : \A b \in TxIdx :
        ( /\ dbTxs[a].pass \in passes[dbTxs[b].pass].with
          /\ dbTxs[a].subscriptionId = dbTxs[b].subscriptionId )
        => dbTxs[a].due # dbTxs[b].due

C3_TransactionAndAdvanceAtomic ==
    \A a \in TxIdx :
        passes[dbTxs[a].pass].step \in {"rejected", "interrupted"}
        => dbSubs[dbTxs[a].subscriptionId].nextPaymentDate > dbTxs[a].due

\* The calendar date one billing cycle after a date: the same day of the next
\* month, or of the same month of the next year.
PlusOneCycle(day, cycle) ==
    IF cycle = "Mensal"
    THEN DayOfYMD(YearOf(day), MonthOf(day) + 1, DomOf(day))
    ELSE DayOfYMD(YearOf(day) + 1, MonthOf(day), DomOf(day))

\* The date updates pass p has made for subscription s.
WroteOf(p, s) == {k \in 1 .. Len(passes[p].wrote) : passes[p].wrote[k].id = s}

\* Update k of pass p handled a backlog: the subscription's date was more than
\* one cycle in the past.
Backlog(p, k) ==
    LET w == passes[p].wrote[k]
    IN  PlusOneCycle(w.from, passes[p].all[w.id].billingCycle) < passes[p].today

SameDayExists(day, cycle) ==
    IF cycle = "Mensal"
    THEN DomOf(day) <= DaysInMonth(YearOf(DayOfYMD(YearOf(day), MonthOf(day) + 1, 1)),
                                   MonthOf(DayOfYMD(YearOf(day), MonthOf(day) + 1, 1)))
    ELSE DomOf(day) <= DaysInMonth(YearOf(day) + 1, MonthOf(day))

\* C13: the date a pass writes is determined by the previous nextPaymentDate
\* and the billing cycle alone: it is the previous date plus one calendar month
\* (Mensal) or plus one calendar year (Anual), whatever today is.
C13_NextDateIsPreviousPlusOneCycle ==
    \A p \in 1 .. Len(passes) : \A k \in 1 .. Len(passes[p].wrote) :
        LET w     == passes[p].wrote[k]
            cycle == passes[p].all[w.id].billingCycle
        IN  SameDayExists(w.from, cycle) => w.to = PlusOneCycle(w.from, cycle)

\* The first day of the calendar month that follows the month of a date.
NextMonthStart(day) == DayOfYMD(YearOf(day), MonthOf(day) + 1, 1)

\* C14: when a pass charges a monthly subscription whose nextPaymentDate is
\* the last day of a month (2024-01-31 on 2024-02-01), it posts one Expense
\* transaction of the subscription's amount dated today and the date it writes
\* lies inside the immediately following calendar month.
C14_MonthEndStaysInNextMonth ==
    \A p \in 1 .. Len(passes) : \A k \in 1 .. Len(passes[p].wrote) :
        LET w   == passes[p].wrote[k]
            sub == passes[p].all[w.id]
        IN  ( /\ sub.billingCycle = "Mensal"
              /\ DomOf(w.from) = DaysInMonth(YearOf(w.from), MonthOf(w.from)) )
            => /\ Cardinality(TxOf(p, w.id)) = 1
               /\ \A a \in TxOf(p, w.id) :
                     /\ dbTxs[a].type = "EXPENSE"
                     /\ dbTxs[a].amount = sub.amount
                     /\ dbTxs[a].date = passes[p].today
               /\ NextMonthStart(w.from) <= w.to
               /\ w.to < NextMonthStart(NextMonthStart(w.from))

\* C15: when posting the transaction or updating the date of one due
\* subscription has failed and the pass has ended, the pass has still processed
\* every other subscription that was due: each has its transaction and its
\* date update.
C15_FailureLeavesOthersProcessed ==
    \A p \in 1 .. Len(passes) :
        passes[p].step = "rejected"
        => \A s \in passes[p].due \ {Head(passes[p].queue).id} :
              TxOf(p, s) # {} /\ WroteOf(p, s) # {}

\* The stored subscription s is one a pass selects today.
Selected(s) ==
    /\ dbSubs[s].active
    /\ dbSubs[s].autoPay
    /\ dbSubs[s].nextPaymentDate <= UTCDate(now)

\* C16: a step of the application posts a transaction or changes a stored
\* subscription only for a subscription that is active, has autoPay on and has
\* nextPaymentDate <= today, and then changes its nextPaymentDate only; every
\* other subscription and every transaction already stored stay as they are.
C16_PassTouchesOnlySelected ==
    [][ /\ Len(dbTxs') >= Len(dbTxs)
        /\ SubSeq(dbTxs', 1, Len(dbTxs)) = dbTxs
        /\ \A a \in (Len(dbTxs) + 1) .. Len(dbTxs') :
              Selected(dbTxs'[a].subscriptionId)
        /\ DOMAIN dbSubs' = DOMAIN dbSubs
        /\ \A s \in DOMAIN dbSubs :
              dbSubs'[s] # dbSubs[s]
              => /\ Selected(s)
                 /\ dbSubs'[s] = [dbSubs[s] EXCEPT
                                    !.nextPaymentDate = dbSubs'[s].nextPaymentDate]
      ]_vars

\* C16's case: a pass has run to completion, has posted a transaction, and a
\* subscription it did not select is stored as the pass found it.
C16_Witness ==
    \E p \in completed : \E s \in SubIds \ passes[p].due :
        /\ \E a \in TxIdx : dbTxs[a].pass = p
        /\ dbSubs[s] = passes[p].all[s]

\* C17: over billing passes and edits of a subscription (whose form cannot
\* change the payment date), the stored nextPaymentDate of a subscription
\* never decreases.
C17_NextPaymentDateNeverDecreases ==
    [][\A s \in DOMAIN dbSubs :
          dbSubs'[s].nextPaymentDate >= dbSubs[s].nextPaymentDate]_vars

\* The ids of the transactions in the state of instance i.
TxIdsOf(txs) == {txs[k].id : k \in 1 .. Len(txs)}

\* A step deletes a parent in the state of instance i: the instance stays
\* loaded, and an offer, a service or a subscription leaves its lists.
DeletesParent(i) ==
    /\ ~loading[i] /\ ~loading'[i]
    /\ \/ DOMAIN offers'[i] # DOMAIN offers[i]
       \/ DOMAIN services'[i] # DOMAIN services[i]
       \/ DOMAIN data'[i] # DOMAIN data[i]

\* C18: deleting an offer, a subscription or a service removes no
\* transaction from the state, and afterwards every link a transaction of the
\* state carries (offerId, subscriptionId, serviceId) is to a parent that is
\* still there.
C18_DeleteKeepsTransactionsAndClearsLinks ==
    [][\A i \in insts :
          DeletesParent(i)
          => /\ TxIdsOf(transactions'[i]) = TxIdsOf(transactions[i])
             /\ \A k \in 1 .. Len(transactions'[i]) :
                   LET t == transactions'[i][k]
                   IN  /\ t.offerId = 0 \/ t.offerId \in DOMAIN offers'[i]
                       /\ t.serviceId = 0 \/ t.serviceId \in DOMAIN services'[i]
                       /\ t.subscriptionId = 0 \/ t.subscriptionId \in DOMAIN data'[i]
      ]_vars

\* C19: a persistence failure during a billing pass or a daily-entry
\* resolution never escapes as an unhandled rejection (no pass ends rejected),
\* and the operation ends in an error outcome reported to its caller: no
\* updateOffer call ends with its error only caught and logged, returning to
\* its caller as a success does.
C19_FailureIsReportedNotThrown ==
    /\ \A p \in 1 .. Len(passes) : passes[p].step # "rejected"
    /\ \A c \in 1 .. Len(calls) : calls[c].step # "caught"

-----------------------------------------------------------------------------
(* Claims about daily entries *)

DatesOf(entries) == {entries[k].date : k \in 1 .. Len(entries)}

\* No two entries of the list carry the same date.
OnePerDate(entries) == Cardinality(DatesOf(entries)) = Len(entries)

\* The stored entries of offer o dated d.
RowsFor(o, d) == {e \in dbEntries : e.offer_id = o /\ e.date = d}

\* C4: every offer holds at most one DailyEntry per calendar date: the offers
\* of each instance's snapshot, the offer the detail form holds, and the
\* stored rows.
C4_OneEntryPerOfferAndDate ==
    /\ \A i \in insts : \A o \in DOMAIN offers[i] : OnePerDate(offers[i][o].dailyEntries)
    /\ \A i \in insts :
          localOffer[i] # <<>> => OnePerDate(localOffer[i][1].offer.dailyEntries)
    /\ \A o \in OfferIds : \A d \in DatesOf(RowsById(dbEntries)) :
          Cardinality(RowsFor(o, d)) <= 1

\* The resolutions (updateOffer calls made by handleResolve) of a task.
Resolutions(task) == {c \in 1 .. Len(calls) : calls[c].task = task}

Tasks == {calls[c].task : c \in 1 .. Len(calls)} \ {<<>>}

\* C5: once two resolutions of the same (offerId, date) have both ended,
\* exactly one entry is stored for the pair and exactly one of the two
\* attempts succeeded, the other having ended in an error.
C5_SecondResolutionConflicts ==
    \A t \in Tasks :
        (/\ Cardinality(Resolutions(t)) = 2
         /\ \A c \in Resolutions(t) : ~InFlight(c))
        => /\ Cardinality(RowsFor(t[1], t[2])) = 1
           /\ Cardinality({c \in Resolutions(t) : calls[c].step = "done"}) = 1

\* C6: a resolution that ended without a persistence failure has stored
\* exactly one entry for its (offerId, date), and once the instance has
\* reloaded its snapshot the scan no longer lists the pair.
C6_ResolutionPersistsOneEntry ==
    \A c \in 1 .. Len(calls) :
        (calls[c].task # <<>> /\ calls[c].step = "done")
        => /\ Cardinality(RowsFor(calls[c].task[1], calls[c].task[2])) = 1
           /\ (~loading[calls[c].inst] /\ fetches[calls[c].inst] = 0)
                 => calls[c].task \notin PendingTaskSet(offers[calls[c].inst], now, tz)

\* C7: the team payout the dashboard aggregates is the sum, over the entries
\* it covers, of the share computed from each entry's figures and its
\* offer's current payoutModel and teamPotPercent.
C7_DashboardShareIsRecomputed ==
    \A i \in insts :
        ~loading[i] =>
            DashboardTeamShare(offers[i], now, tz)
              = LET es == DashboardEntries(offers[i], now, tz)
                IN  SumOver([o \in DOMAIN offers[i] |->
                        SumSeq([k \in 1 .. Len(es[o]) |->
                            CalculateDynamicEntryShare(offers[i][o], es[o][k])])],
                        DOMAIN offers[i])

-----------------------------------------------------------------------------
(* Claims about the commission formulas and the compliance scan *)

\* The percentage of the formula: an undefined teamPotPercent counts as 0.
PotPercentOf(offer) ==
    IF offer.teamPotPercent = <<>> THEN 0 ELSE offer.teamPotPercent[1]

\* The base of the formula: the revenue under the Revenue model, the net
\* profit under the Profit model.
BaseOf(offer, entry) ==
    CASE offer.payoutModel = "REVENUE" -> entry.revenue
      [] offer.payoutModel = "PROFIT"  -> entry.netProfit

\* C8: every team share computed, for an entry shown and for an entry being
\* created, is base * teamPotPercent / 100 (here times 100), with base the
\* entry's revenue or net profit by payoutModel and an undefined
\* teamPotPercent giving 0.
C8_TeamShareIsBaseTimesPercent ==
    ret # <<>> =>
        /\ ret[1].fn = "calculateDynamicEntryShare" =>
              \A k \in 1 .. Len(arg.offer.dailyEntries) :
                 ret[1].val[k] = BaseOf(arg.offer, arg.offer.dailyEntries[k])
                                    * PotPercentOf(arg.offer)
        /\ ret[1].fn = "newEntry" =>
              ret[1].val.teamShare = BaseOf(arg.offer, ret[1].val) * PotPercentOf(arg.offer)

\* C8 witness: under the Profit model at 20% the shares of net profits 60 and
\* -50 are 12.00 and -10.00.
C8_Witness ==
    /\ ret # <<>>
    /\ ret[1].fn = "calculateDynamicEntryShare"
    /\ arg.offer.payoutModel = "PROFIT"
    /\ arg.offer.teamPotPercent = <<20>>
    /\ Len(arg.offer.dailyEntries) = 2
    /\ ret[1].val = <<1200, -1000>>

PercentSum(ps) == SumSeq([p \in 1 .. Len(ps) |-> ps[p].sharePercent[1]])

MissingSet(offs, refDate) ==
    {t \in (DOMAIN offs) \X ((refDate - 29) .. refDate) :
        /\ offs[t[1]].status = "ACTIVE"
        /\ t[2] >= offs[t[1]].startDate
        /\ offs[t[1]].endDate = <<>> \/ t[2] <= offs[t[1]].endDate[1]
        /\ \A k \in 1 .. Len(offs[t[1]].dailyEntries) :
              offs[t[1]].dailyEntries[k].date # t[2]}

\* C10: the pairs the scan lists are exactly the missing set at the local
\* date of the clock reading; offers that are not Active add none.
C10_ScanListsExactlyTheMissingSet ==
    ret # <<>> =>
        /\ ret[1].val = MissingSet(arg.offers, LocalDate(ret[1].at, arg.off))
        /\ \A o \in DOMAIN arg.offers :
              arg.offers[o].status # "ACTIVE" => \A t \in ret[1].val : t[1] # o

\* C10 witness: an Active offer started 2024-01-10 with no entries, scanned
\* on 2024-01-15 next to a Paused offer with the same dates, gives the six
\* pairs of 01-10 through 01-15 and nothing else.
C10_Witness ==
    /\ ret # <<>>
    /\ LocalDate(ret[1].at, arg.off) = DayOfYMD(2024, 1, 15)
    /\ arg.offers[1] = ScanOffer("ACTIVE", DayOfYMD(2024, 1, 10), <<>>, <<>>)
    /\ arg.offers[2].status = "PAUSED"
    /\ Cardinality(ret[1].val) = 6
    /\ ret[1].val = {<<1, d>> : d \in DayOfYMD(2024, 1, 10) .. DayOfYMD(2024, 1, 15)}

ActiveOffers(offs) == {o \in DOMAIN offs : offs[o].status = "ACTIVE"}

\* C11: complianceRate is round(C / A * 100), halves rounded up, with A the
\* number of Active offers and C the number of those without a missing
\* date; it is 100 when there is no Active offer, and with Active offers it
\* is 100 only when nothing is missing.
C11_ComplianceRateIsRounded ==
    ret # <<>> =>
        LET A == Cardinality(ActiveOffers(arg.offers))
            C == Cardinality({o \in ActiveOffers(arg.offers) :
                                 \A t \in ret[1].val : t[1] # o})
        IN  /\ A = 0 => ret[1].complianceRate = 100
            /\ A > 0 => ret[1].complianceRate = ((200 * C) + A) \div (2 * A)
            /\ (A > 0 /\ ret[1].complianceRate = 100) => ret[1].val = {}

\* C20: the list of missing entries is in descending order of date, every
\* entry of it is in exactly one of the groups 'today' and 'overdue', and it
\* is in 'today' exactly when its date is the reference date the 30-day
\* window was built from.
C20_ListOrderedAndGrouped ==
    ret # <<>> =>
        LET tasks   == ret[1].tasks
            today   == SeqRange(ret[1].tasksToday)
            overdue == SeqRange(ret[1].tasksOverdue)
        IN  /\ \A k \in 1 .. (Len(tasks) - 1) : tasks[k][2] >= tasks[k + 1][2]
            /\ Len(ret[1].tasksToday) + Len(ret[1].tasksOverdue) = Len(tasks)
            /\ \A t \in SeqRange(tasks) : (t \in today) # (t \in overdue)
            /\ \A t \in SeqRange(tasks) :
                  t \in today <=> t[2] = LocalDate(ret[1].at, arg.off)

-----------------------------------------------------------------------------
(* Claims about snapshots, saves and reloads *)

\* Every entry of the list has netProfit = revenue - adsSpend.
NetProfitHolds(entries) ==
    \A k \in 1 .. Len(entries) :
        entries[k].netProfit = entries[k].revenue - entries[k].adsSpend

Interrupted(p) == passes[p].step \in {"rejected", "interrupted"}

\* The subscriptions pass p set out to process and did not reach.
Unreached(p) == {s \in passes[p].due : TxOf(p, s) = {} /\ WroteOf(p, s) = {}}

TenthsSum(ps) == SumSeq([p \in 1 .. Len(ps) |-> ps[p].sharePercent])

\* C23: the warning of the team table is raised exactly when there is at
\* least one participant and the percentages add up to a number more than 0.1
\* away from 100.
C23_WarningExactlyBeyondTolerance ==
    ret # <<>> =>
        (ret[1].val <=> /\ Len(arg.participants) > 0
                        /\ \/ TenthsSum(arg.participants) - 1000 > 1
                           \/ 1000 - TenthsSum(arg.participants) > 1)

\* The clock readings and time zones that share the reference date refDate:
\* midnight, noon and 23:00 local time in each time zone.
ReadingsOn(refDate) ==
    {<<((refDate * 24) + h) - off, off>> : h \in {0, 12, 23}, off \in TZOffsets}

\* C24: the missing set and the complianceRate a rendering of the Daily Check
\* screen presents are those of every scan of the same offers made at any
\* clock reading, in any time zone, whose date is the date of the rendering.
C24_ScanDependsOnReferenceDateOnly ==
    ret # <<>> =>
        \A r \in ReadingsOn(LocalDate(ret[1].now, arg.off)) :
            /\ PendingTaskSet(arg.offers, r[1], r[2]) = ret[1].val
            /\ ComplianceRate(arg.offers, PendingTaskSet(arg.offers, r[1], r[2]))
                  = ret[1].complianceRate

\* C25: when a pass starts in an application instance where another pass is
\* still awaiting its writes, none of the subscriptions it sets out to process
\* has already been charged by that pass.
C25_NoSecondPassOverChargedSubscriptions ==
    [][Len(passes') > Len(passes) =>
          LET started == passes'[Len(passes')]
          IN  \A q \in 1 .. Len(passes) :
                  (Running(q) /\ passes[q].inst = started.inst)
                  => \A s \in started.due : TxOf(q, s) = {}]_vars

\* The date n billing cycles after a date: the same day of the month n months
\* (or years) later, or that month's last day when it has no such day.
CycleDate(day, cycle, n) ==
    LET m    == IF cycle = "Mensal" THEN MonthOf(day) + n ELSE MonthOf(day) + (12 * n)
        same == DayOfYMD(YearOf(day), m, DomOf(day))
        last == DayOfYMD(YearOf(day), m + 1, 1) - 1
    IN  IF same <= last THEN same ELSE last

\* The number of cycles needed to move a subscription's date past today; none
\* for a subscription the pass does not select.
CyclesNeeded(sub, today) ==
    IF ~(sub.active /\ sub.autoPay) THEN 0
    ELSE CHOOSE n \in 0 .. 12 :
            /\ CycleDate(sub.nextPaymentDate, sub.billingCycle, n) > today
            /\ \A k \in 0 .. (n - 1) :
                  CycleDate(sub.nextPaymentDate, sub.billingCycle, k) <= today

\* The chain has come to rest: no pass is running, no reload is under way and
\* no active autoPay subscription is due.
ChainSettled ==
    /\ \A p \in 1 .. Len(passes) : ~Running(p)
    /\ \A i \in insts : fetches[i] = 0 /\ ~loading[i]
    /\ \A s \in SubIds : ~Selected(s)

\* C26: with every write succeeding the chain of passes and reloads is never
\* stuck before it has come to rest, and when it has, every subscription has
\* been charged once for each cycle that was needed to move the date it
\* started from past today.
C26_ChainSettlesAfterOneTransactionPerCycle ==
    /\ ChainSettled \/ ENABLED NextChain
    /\ ChainSettled =>
          \A s \in SubIds :
              Cardinality({a \in TxIdx : dbTxs[a].subscriptionId = s})
                 = CyclesNeeded(IF passes = <<>> THEN dbSubs[s] ELSE passes[1].all[s],
                                UTCDate(now))

\* C27: on the rendering that computes both from the same offers at the same
\* instant, the pending count of the navigation badge is the number of missing
\* entries listed on the Daily Check screen.
C27_BadgeCountIsListLength ==
    (ret # <<>> /\ ret[1].fn = "pendingTasks" /\ ret[1].now = ret[1].at) =>
        ret[1].pendingChecksCount = Len(ret[1].tasks)

\* C28: when an updateSubscription call returns successfully, the stored
\* subscription and the local state both hold the call's value of every field
\* of its updates.
C28_UpdatePersistsEveryField ==
    [][\A c \in 1 .. Len(subCalls) :
          (subCalls[c].step = "sent" /\ subCalls'[c].step = "done")
          => LET i  == subCalls[c].inst
                 id == subCalls[c].id
                 u  == subCalls[c].updates
             IN  \A f \in DOMAIN u :
                     /\ id \in DOMAIN data'[i] => data'[i][id][f] = u[f]
                     /\ dbSubs'[id][f] = u[f]]_vars

\* The entries of a list by what they record.
EntryFacts(entries) ==
    {<<entries[k].date, entries[k].revenue, entries[k].adsSpend>> :
        k \in 1 .. Len(entries)}

\* C29: when the updateOffer call of a save has ended, the snapshot a reload
\* reads from storage holds the offer with the saved payoutModel and
\* teamPotPercent and with exactly the saved entries: those added before the
\* save are there and those deleted before it are not.
C29_SaveThenReloadIsRoundTrip ==
    [][\A c \in 1 .. Len(calls) :
          (InFlight(c) /\ calls[c].task = <<>> /\ calls'[c].step = "done")
          => LET u == calls[c].updates
                 r == MappedOffers(dbOffers', dbEntries')[calls[c].offerId]
             IN  /\ r.payoutModel = u.payoutModel
                 /\ r.teamPotPercent = u.teamPotPercent
                 /\ EntryFacts(r.dailyEntries) = EntryFacts(u.dailyEntries)]_vars

\* C30: an amount converted to BRL and back under the same rate table is
\* shown, in its own currency, as the amount that was entered.
C30_ConversionRoundTrip ==
    (ret # <<>> /\ ret[1].fn = "convertFromBRL") => ret[1].shown = arg.amount

====
